---- MODULE Spec2Model ----
(***************************************************************************)
(* Beam-search shift/reduce decoder with early-update training             *)
(* (src/src/ime/decoder.cc, common.h, model.cc, dict.h).                   *)
(*                                                                         *)
(* A lattice is std::vector<std::vector<Node>>: a sequence of steps, each  *)
(* a sequence of Node records.  C++ indices are 0-based; step s of a       *)
(* lattice b is b[s + 1] and node j of a step is step[j + 1].  A Node      *)
(* pointer is the triple (lattice, step, index) of the node it addresses.  *)
(* Scores are doubles in the program and integers here: the arithmetic of  *)
(* the model is exact.                                                     *)
(***************************************************************************)
EXTENDS Integers, Sequences, FiniteSets, TLC

\* ------------------------------------------------------------------ bounds
MaxCodeLen == 2
MaxBeam == 2

\* ------------------------------------------------------------ dictionary
\* std::multimap<std::string, Word>: ordered by code, equal codes in
\* insertion order.  Strings are sequences of one-character strings.
Dict ==
    << [code |-> <<"a">>,      text |-> <<"A">>],
       [code |-> <<"a", "b">>, text |-> <<"A", "B">>],
       [code |-> <<"a", "b">>, text |-> <<"C">>],
       [code |-> <<"b">>,      text |-> <<"B">> ] >>

\* const Word *word: 0 is nullptr, 1..Len(Dict) a dictionary entry,
\* Len(Dict) + 1 the BOS/EOS sentinel word (empty text).
NullWord == 0
\* std::numeric_limits<size_t>::max(), the "no index" value of match.
SIZE_MAX == 2147483647
bos_eos == Len(Dict) + 1

WordText(w) == IF w \in 1..Len(Dict) THEN Dict[w].text ELSE <<>>

\* The code a word is entered under; the sentinel has none.
WordCode(w) == IF w \in 1..Len(Dict) THEN Dict[w].code ELSE <<>>

RECURSIVE MaxLenUpTo(_)
MaxLenUpTo(i) ==
    IF i = 0 THEN 0
    ELSE LET m == MaxLenUpTo(i - 1)
         IN  IF Len(Dict[i].code) > m THEN Len(Dict[i].code) ELSE m

max_code_len == MaxLenUpTo(Len(Dict))

\* Mutant of DictFind: the whole table is returned, whatever the key.
DictFind_all(subcode) == [i \in 1..Len(Dict) |-> i]

\* Mutant of DictFind: only the first entry with the code is returned.
DictFind_first(subcode) ==
    LET S == {i \in 1..Len(Dict) : Dict[i].code = subcode}
    IN  IF S = {} THEN <<>> ELSE <<CHOOSE i \in S : \A j \in S : i <= j>>

\* Dictionary::find: the entries whose code equals subcode, in map order.
RECURSIVE FindFrom(_, _)
FindFrom(subcode, i) ==
    IF i > Len(Dict) THEN <<>>
    ELSE (IF Dict[i].code = subcode THEN <<i>> ELSE <<>>) \o FindFrom(subcode, i + 1)

DictFind(subcode) == FindFrom(subcode, 1)

\* ------------------------------------------------------------------ inputs
Chars == {"a", "b", "x"}
Codes == UNION {[1..n -> Chars] : n \in 1..MaxCodeLen}
Texts == {<<>>, <<"A", "B">>, <<"A", "A">>, <<"C">>, <<"Z">>}
BeamSizes == 1..MaxBeam

\* ---------------------------------------------------------------- features
Unigram(t)   == [kind |-> "unigram",  l |-> <<>>, r |-> t,    n |-> 0]
Bigram(a, b) == [kind |-> "bigram",   l |-> a,    r |-> b,    n |-> 0]
CodeLen(k)   == [kind |-> "code_len", l |-> <<>>, r |-> <<>>, n |-> k]
Feature(k)   == [key |-> k, val |-> 1]

\* The feature keys that may carry a non-zero weight, and the weights tried.
WKeys == {Unigram(<<"A">>), Unigram(<<"A", "B">>), CodeLen(1)}
WVals == {-1, 0, 1}

VARIABLES
    code,        \* the code string being decoded
    text,        \* the target text (empty: unconstrained decode)
    beam_size,   \* Decoder::beam_size
    weights,     \* Model::weights
    pc,          \* the next operation to run
    pos,         \* loop variable of decode / early_update
    succ,        \* success flag of decode / early_update
    cur_bs,      \* beam_size argument of the running decode
    attempt,     \* number of text-constrained decodes started
    dest_beams,  \* lattice of the text-constrained decode
    beams,       \* lattice of the early-update pass
    cand,        \* nodes emplaced by the last advance / end_decode, before topk
    paths,       \* reference paths (copies of nodes)
    indeces,     \* per reference: its index in the last step
    label,       \* out-parameter of early_update
    ret,         \* value returned by early_update
    trace,       \* operations executed by the early-update pass, in order
    tries,       \* the text-constrained decodes that returned: width, result
    forced,      \* pointers to the nodes match has force-emplaced
    pruned,      \* the running decode has cut a step down to its beam width
    \* the batched calls (update and evaluate)
    batch,       \* codes / texts of the running batch: [code, text] records
    wpc,         \* per iteration of the parallel loop: its position
    phase,       \* position of the calling thread
    loop_i,      \* index of the calling thread's serial loop
    \* Decoder::update(codes, texts, success, precision, loss, early_update_count)
    positions,   \* per sample: value returned by early_update
    b_indeces,   \* per sample: label set by early_update
    probs,       \* per sample: prob set by early_update
    batch_beams, \* per sample: lattice of the early-update pass
    batch_deltas,\* per sample: deltas of the last step
    updates,     \* the additions Model::update made to weights, in order
    success,
    precision,
    loss,        \* the probabilities whose -log was added, in order
    early_update_count,
    \* Decoder::evaluate(is, batch_size, metrics)
    stream,      \* the samples still in the input stream and those read
    batch_size,
    rd,          \* number of samples read from the stream
    count,
    ev_succ,
    ev_prec,
    ev_inbeam,
    ev_loss,     \* the probabilities whose -log was added, in order
    w_index,     \* per iteration: index returned by predict
    w_prob,      \* per iteration: prob set by predict
    w_reg,       \* per iteration: the value loaded from a counter
    preds,       \* what predict returned for each sample read, in stream order
    \* Model::save / Model::load
    file,        \* the model file: a sequence of lines
    before,      \* the weights held before the last save or load
    io_pc,       \* what was done last with the model file
    \* Lattice
    length,      \* Lattice::length
    capacity,    \* Lattice::capacity
    pool,        \* the memory at pool[0], pool[1], ...: a node, or no node
    limits,      \* Lattice::limits, as offsets from pool
    heap,        \* Lattice::heap, as offsets from pool
    l_pc,        \* the next call the lattice's user makes
    handed,      \* the slots alloc has returned since init
    emplaced,    \* the nodes emplaced in the current step, in order
    kept,        \* the nodes of the current step topk has not evicted
    snap,        \* pool as it was at the last begin_step
    \* Features::Iterator
    it_path,     \* the nodes of a path, root first; prev is an index, 0 nullptr
    it,          \* the iterator of the loop: node, local, iter, __end
    yielded,     \* what the loop has read through the iterator, in order
    it_pc,       \* where the loop over the features stands
    \* Decoder::train(is, batch_size, metrics)
    tr_is,       \* the lines of the stream, each a sequence of fields
    tr_rd,       \* the number of lines read
    tr_batch_size, \* batch_size
    tr_codes,    \* codes: the codes collected for the next batch
    tr_texts,    \* texts: the texts collected for the next batch
    tr_batch,    \* batch: the number of batch updates made
    tr_count,    \* count
    passed,      \* the batches passed to update, in order
    tr_pc        \* where train stands

decode_vars == <<code, text, beam_size, weights, pc, pos, succ, cur_bs, attempt,
          dest_beams, beams, cand, paths, indeces, label, ret, trace,
          tries, forced, pruned>>

batch_vars == <<batch, wpc, phase, loop_i>>

train_vars == <<positions, b_indeces, probs, batch_beams, batch_deltas,
                updates, success, precision, loss, early_update_count>>

eval_vars == <<stream, batch_size, rd, count, ev_succ, ev_prec, ev_inbeam,
               ev_loss, w_index, w_prob, w_reg, preds>>

file_vars == <<file, before, io_pc>>

lattice_vars == <<length, capacity, pool, limits, heap, l_pc, handed,
                  emplaced, kept, snap>>

iter_vars == <<it_path, it, yielded, it_pc>>

stream_vars == <<tr_is, tr_rd, tr_batch_size, tr_codes, tr_texts, tr_batch, tr_count,
                 passed, tr_pc>>

vars == <<decode_vars, batch_vars, train_vars, eval_vars, file_vars,
          lattice_vars, iter_vars, stream_vars>>

\* ------------------------------------------------------------------- nodes
Ptr(lat, s, j) == [lat |-> lat, step |-> s, idx |-> j]
NullPtr == [lat |-> "null", step |-> 0, idx |-> 0]

\* Node::Node()
NodeDefault ==
    [prev |-> NullPtr, code_pos |-> 0, text_pos |-> 0, word |-> NullWord,
     prev_word |-> NullPtr, local_features |-> <<>>, global_features |-> <<>>,
     local_score |-> 0, score |-> 0]

\* The prev_word initialiser shared by both constructors.
PrevWordOf(pp, p) == IF p.word # NullWord THEN pp ELSE p.prev_word

\* Mutant of NodeShift: text_pos is left at 0 instead of copied from prev_.
NodeShift_text0(pp, p) ==
    [prev |-> pp, code_pos |-> p.code_pos, text_pos |-> 0,
     word |-> NullWord, prev_word |-> PrevWordOf(pp, p),
     local_features |-> <<>>, global_features |-> <<>>,
     local_score |-> 0, score |-> 0]

\* Node::Node(const Node *prev_): pp addresses p.
NodeShift(pp, p) ==
    [prev |-> pp, code_pos |-> p.code_pos, text_pos |-> p.text_pos,
     word |-> NullWord, prev_word |-> PrevWordOf(pp, p),
     local_features |-> <<>>, global_features |-> <<>>,
     local_score |-> 0, score |-> 0]

\* Mutant of NodeReduce: text_pos is copied from prev_.
NodeReduce_text_prev(pp, p, cp, tp, w) ==
    [prev |-> pp, code_pos |-> cp, text_pos |-> p.text_pos,
     word |-> w, prev_word |-> PrevWordOf(pp, p),
     local_features |-> <<>>, global_features |-> <<>>,
     local_score |-> 0, score |-> 0]

\* Node::Node(prev_, code_pos_, text_pos_, word_)
NodeReduce(pp, p, cp, tp, w) ==
    [prev |-> pp, code_pos |-> cp, text_pos |-> tp,
     word |-> w, prev_word |-> PrevWordOf(pp, p),
     local_features |-> <<>>, global_features |-> <<>>,
     local_score |-> 0, score |-> 0]

\* The node a pointer into lattice b addresses.
At(b, p) == b[p.step + 1][p.idx + 1]


\* ------------------------------------------------------------------- model
\* weights.find(key): an absent key contributes 0.
Weight(k) == IF k \in DOMAIN weights THEN weights[k] ELSE 0

\* The sum of f.second * weight over a feature list.
RECURSIVE Dot(_)
Dot(fs) ==
    IF fs = <<>> THEN 0
    ELSE Head(fs).val * Weight(Head(fs).key) + Dot(Tail(fs))

\* Mutant of compute_score: the predecessor's local_score is not carried over.
compute_score_restart(b, n) ==
    [n EXCEPT !.local_score = Dot(n.local_features),
              !.score = Dot(n.local_features) + Dot(n.global_features)]

\* Model::compute_score: node n whose predecessors live in lattice b.
compute_score(b, n) ==
    LET ls == (IF n.prev # NullPtr THEN At(b, n.prev).local_score ELSE 0)
              + Dot(n.local_features)
    IN  [n EXCEPT !.local_score = ls,
                  !.score = ls + Dot(n.global_features)]

\* Model::score: the full re-walk of prev* from node n.
RECURSIVE WalkLocal(_, _)
WalkLocal(b, p) ==
    IF p = NullPtr THEN 0
    ELSE Dot(At(b, p).local_features) + WalkLocal(b, At(b, p).prev)

ModelScore(b, n) ==
    Dot(n.local_features) + WalkLocal(b, n.prev) + Dot(n.global_features)

\* ----------------------------------------------------------------- decoder
\* Mutant of make_features: the code_len feature is added only while part
\* of the code is unmatched.
make_features_tail(b, n, p) ==
    LET uni == IF n.word # NullWord /\ WordText(n.word) # <<>>
               THEN <<Feature(Unigram(WordText(n.word)))>> ELSE <<>>
        bi  == IF n.word # NullWord /\ n.prev_word # NullPtr
               THEN <<Feature(Bigram(WordText(At(b, n.prev_word).word),
                                     WordText(n.word)))>>
               ELSE <<>>
    IN  [n EXCEPT !.local_features = n.local_features \o uni \o bi,
                  !.global_features =
                      n.global_features \o
                      (IF n.code_pos < p THEN <<Feature(CodeLen(p - n.code_pos))>>
                       ELSE <<>>)]

\* Decoder::make_features
make_features(b, n, p) ==
    LET uni == IF n.word # NullWord /\ WordText(n.word) # <<>>
               THEN <<Feature(Unigram(WordText(n.word)))>> ELSE <<>>
        bi  == IF n.word # NullWord /\ n.prev_word # NullPtr
               THEN <<Feature(Bigram(WordText(At(b, n.prev_word).word),
                                     WordText(n.word)))>>
               ELSE <<>>
    IN  [n EXCEPT !.local_features = n.local_features \o uni \o bi,
                  !.global_features =
                      n.global_features \o <<Feature(CodeLen(p - n.code_pos))>>]

\* Mutant of can_shift: a shift is allowed at the last code position too.
can_shift_at_end(p, c, ps) == ps - p.code_pos < max_code_len

\* A shift is permitted iff pos < |code| and pos - code_pos < max_code_len.
can_shift(p, c, ps) == ps < Len(c) /\ ps - p.code_pos < max_code_len

\* With a text constraint the word must continue the text at text_pos:
\* text.compare(text_pos, |word.text|, word.text) == 0.
can_reduce(p, t, w) ==
    \/ t = <<>>
    \/ /\ p.text_pos <= Len(t)
       /\ LET hi == IF p.text_pos + Len(WordText(w)) <= Len(t)
                    THEN p.text_pos + Len(WordText(w)) ELSE Len(t)
          IN  SubSeq(t, p.text_pos + 1, hi) = WordText(w)

\* The reductions of advance for predecessor p, over the entries ws found.
RECURSIVE ReduceOver(_, _, _, _, _, _, _)
ReduceOver(b, pp, p, c, t, ps, ws) ==
    IF ws = <<>> THEN <<>>
    ELSE LET w == Head(ws)
         IN  (IF can_reduce(p, t, w)
              THEN <<compute_score(b, make_features(b,
                        NodeReduce(pp, p, ps, p.text_pos + Len(WordText(w)), w),
                        ps))>>
              ELSE <<>>)
             \o ReduceOver(b, pp, p, c, t, ps, Tail(ws))

\* The body of advance's loop for the predecessor at index j of the last step.
ExpandNode(lat, b, c, t, ps, j) ==
    LET pp == Ptr(lat, Len(b) - 1, j)
        p  == At(b, pp)
        subcode == SubSeq(c, p.code_pos + 1, ps)
    IN  (IF can_shift(p, c, ps)
         THEN <<compute_score(b, make_features(b, NodeShift(pp, p), ps))>>
         ELSE <<>>)
        \o ReduceOver(b, pp, p, c, t, ps, DictFind(subcode))

\* advance's loop: the nodes emplaced into the new step, in order.
RECURSIVE AdvanceFrom(_, _, _, _, _, _)
AdvanceFrom(lat, b, c, t, ps, j) ==
    IF j >= Len(b[Len(b)]) THEN <<>>
    ELSE ExpandNode(lat, b, c, t, ps, j) \o AdvanceFrom(lat, b, c, t, ps, j + 1)

AdvanceCands(lat, b, c, t, ps) == AdvanceFrom(lat, b, c, t, ps, 0)

\* Mutant of EndOk: the text cursor is not compared with |text|.
EndOk_no_text(p, c, t) == p.code_pos = Len(c)

\* end_decode's predecessor test.
EndOk(p, c, t) ==
    p.code_pos = Len(c) /\ (t = <<>> \/ p.text_pos = Len(t))

\* end_decode's loop: one EOS node per predecessor that passes EndOk.
RECURSIVE EndFrom(_, _, _, _, _)
EndFrom(lat, b, c, t, j) ==
    IF j >= Len(b[Len(b)]) THEN <<>>
    ELSE LET pp == Ptr(lat, Len(b) - 1, j)
             p  == At(b, pp)
         IN  (IF EndOk(p, c, t)
              THEN <<compute_score(b, make_features(b,
                        [NodeShift(pp, p) EXCEPT !.word = bos_eos], Len(c)))>>
              ELSE <<>>)
             \o EndFrom(lat, b, c, t, j + 1)

EndCands(lat, b, c, t) == EndFrom(lat, b, c, t, 0)

\* Decoder::topk: std::sort by operator > on score, then resize(beam_size).
\* std::sort leaves the order of equal-scored nodes unspecified, so topk
\* is the set of its possible results: every sequence that takes, one at a
\* time, a node of maximal score among those left, up to k nodes.
RECURSIVE SortedPrefixes(_, _, _)
SortedPrefixes(c, S, k) ==
    IF S = {} \/ k = 0 THEN {<<>>}
    ELSE LET M == {i \in S : \A j \in S : ~(c[j].score > c[i].score)}
         IN  UNION {{<<c[i]>> \o tl : tl \in SortedPrefixes(c, S \ {i}, k - 1)}
                    : i \in M}

\* Mutant of topk: the beam is truncated without being sorted.
topk_unsorted(c, k) == {SubSeq(c, 1, IF Len(c) < k THEN Len(c) ELSE k)}

\* Mutant of topk: the beam is cut to beam_size + 1.
topk_one_more(c, k) == SortedPrefixes(c, DOMAIN c, k + 1)

\* Mutant of topk: the beam is sorted but never cut to beam_size.
topk_uncut(c, k) == SortedPrefixes(c, DOMAIN c, Len(c))

topk(c, k) == SortedPrefixes(c, DOMAIN c, k)

\* init_beams: the lattice is reset; it holds no step.
init_beams == <<>>

\* begin_decode: step 0 is appended and holds one default node, the root,
\* which carries the BOS sentinel.
begin_decode(b) == Append(b, <<[NodeDefault EXCEPT !.word = bos_eos]>>)


\* get_paths: the path root..node for the node a pointer addresses, as copies.
RECURSIVE PathOf(_, _)
PathOf(b, p) ==
    IF p = NullPtr THEN <<>>
    ELSE PathOf(b, At(b, p).prev) \o <<At(b, p)>>

\* get_paths(beams): one path per node of the last step, in step order.
get_paths(lat, b) ==
    [i \in 1..Len(b[Len(b)]) |-> PathOf(b, Ptr(lat, Len(b) - 1, i - 1))]

Min(S) == CHOOSE x \in S : \A y \in S : x <= y

Range(q) == {q[i] : i \in DOMAIN q}
Last(q) == q[Len(q)]

\* Mutant of MatchIdx: only the words are compared, not prev.
MatchIdx_word_only(b, pth, ps, pi, i) ==
    IF pi[i] < Len(b[ps])
    THEN LET js == {j \in 0..(Len(b[ps + 1]) - 1) :
                      b[ps + 1][j + 1].word = pth[i][ps + 1].word}
         IN  IF js = {} THEN SIZE_MAX ELSE Min(js)
    ELSE SIZE_MAX

\* match's search loop for reference i: the first node j of step ps whose
\* prev is the reference's node of step ps - 1 and whose word is the
\* reference's word; SIZE_MAX when there is none.
MatchIdx(b, pth, ps, pi, i) ==
    IF pi[i] < Len(b[ps])
    THEN LET js == {j \in 0..(Len(b[ps + 1]) - 1) :
                      /\ b[ps + 1][j + 1].prev = Ptr("beams", ps - 1, pi[i])
                      /\ b[ps + 1][j + 1].word = pth[i][ps + 1].word}
         IN  IF js = {} THEN SIZE_MAX ELSE Min(js)
    ELSE SIZE_MAX

\* Mutant of ForcedNode: only prev is set, prev_word stays as copied.
ForcedNode_prev_only(b, pth, ps, pi, i) ==
    [pth[i][ps + 1] EXCEPT !.prev = Ptr("beams", ps - 1, pi[i])]

\* The node match force-emplaces for reference i: a copy of paths[i][pos]
\* with prev rewired to the reference's node of step ps - 1.
ForcedNode(b, pth, ps, pi, i) ==
    LET pp == Ptr("beams", ps - 1, pi[i])
    IN  [pth[i][ps + 1] EXCEPT
            !.prev = pp,
            !.prev_word = IF At(b, pp).word # NullWord THEN pp ELSE @]

\* Decoder::match: the lattice, the indices and the flag it leaves; ok is
\* FALSE when one of its assertions fails.
match(b, pth, ps, idx) ==
    LET pi    == idx
        found == [i \in 1..Len(pth) |-> MatchIdx(b, pth, ps, pi, i)]
        any   == \E i \in 1..Len(pth) : found[i] # SIZE_MAX
        live  == {i \in 1..Len(pth) : pi[i] < Len(b[ps])}
    IN  IF any
        THEN [ok |-> TRUE, found |-> TRUE, beams |-> b, indeces |-> found,
              forced |-> {}]
        ELSE IF live = {}
        THEN [ok |-> FALSE, found |-> FALSE, beams |-> b, indeces |-> found,
              forced |-> {}]
        ELSE LET i == Min(live)
             IN  [ok |-> TRUE, found |-> FALSE,
                  beams |-> [b EXCEPT ![ps + 1] =
                                Append(@, ForcedNode(b, pth, ps, pi, i))],
                  indeces |-> [found EXCEPT ![i] = Len(b[ps + 1])],
                  forced |-> {Ptr("beams", ps, Len(b[ps + 1]))}]

\* early_update's label loop: the index held by the first reference whose
\* index is inside the last step.
LabelOf(b, idx) ==
    LET ok == {i \in 1..Len(idx) : idx[i] < Len(b[Len(b)])}
    IN  idx[Min(ok)]

\* Mutant of RetryBeam: the second decode runs with the same width.
RetryBeam_same(bs) == bs

\* early_update(code, text, ...): the beam width of the second decode.
RetryBeam(bs) == bs * 2

\* Mutant of AfterMatch: the loop does not test succ.
AfterMatch_no_succ(c, ps, found) ==
    IF ps > Len(c) THEN "eu_label"
    ELSE IF ps + 1 <= Len(c) THEN "eu_advance"
    ELSE "eu_end"

\* early_update's control after succ = match(pos): the loop runs on while
\* succ && pos <= |code|, end_decode runs if succ still holds after the
\* loop, and nothing runs after the match that follows end_decode.
AfterMatch(c, ps, found) ==
    IF ps > Len(c) \/ ~found THEN "eu_label"
    ELSE IF ps + 1 <= Len(c) THEN "eu_advance"
    ELSE "eu_end"

\* ----------------------------------------------------- whole-call results
\* The operations above composed into whole calls, for the callers that run
\* them to completion (update, predict): each is the set of results the
\* call may give, one per order std::sort may leave equal scores in.

\* decode()'s loop from position ps on: [ok, beams].
RECURSIVE DecodeFrom(_, _, _, _, _, _)
DecodeFrom(lat, b, c, t, bs, ps) ==
    IF ps <= Len(c)
    THEN LET cd == AdvanceCands(lat, b, c, t, ps)
         IN  IF cd = <<>>
             THEN {[ok |-> FALSE, beams |-> Append(b, <<>>)]}
             ELSE UNION {DecodeFrom(lat, Append(b, nb), c, t, bs, ps + 1)
                         : nb \in topk(cd, bs)}
    ELSE LET cd == EndCands(lat, b, c, t)
         IN  {[ok |-> cd # <<>>, beams |-> Append(b, nb)] : nb \in topk(cd, bs)}

\* Decoder::decode(code, text, beams, beam_size)
decode(lat, c, t, bs) == DecodeFrom(lat, begin_decode(init_beams), c, t, bs, 1)

\* early_update(code, paths, beams, label) from position ps on:
\* [pos, beams, indeces].
RECURSIVE EarlyFrom(_, _, _, _, _, _)
EarlyFrom(b, pth, idx, c, bs, ps) ==
    LET cd == IF ps <= Len(c) THEN AdvanceCands("beams", b, c, <<>>, ps)
              ELSE EndCands("beams", b, c, <<>>)
        After(nb) ==
            LET m == match(Append(b, nb), pth, ps, idx)
            IN  IF AfterMatch(c, ps, m.found) = "eu_label"
                THEN {[pos |-> IF ps <= Len(c) \/ m.found THEN ps + 1 ELSE ps,
                       beams |-> m.beams, indeces |-> m.indeces]}
                ELSE EarlyFrom(m.beams, pth, m.indeces, c, bs, ps + 1)
    IN  UNION {After(nb) : nb \in topk(cd, bs)}

\* Reals: a score s stands for the real s * ln 2, so that exp(score) is the
\* exact power of two 2^s and a softmax probability is an exact fraction.
RECURSIVE Gcd(_, _)
Gcd(a, b) == IF b = 0 THEN a ELSE Gcd(b, a % b)

Abs(n) == IF n < 0 THEN -n ELSE n

Frac(n, d) ==
    LET g == Gcd(Abs(n), d)
    IN  [num |-> n \div g, den |-> d \div g]

RECURSIVE Pow2(_)
Pow2(k) == IF k <= 0 THEN 1 ELSE 2 * Pow2(k - 1)

\* exp(score) of the nodes of a step, up to the common factor 2^lo.
Exps(step, lo) == [i \in DOMAIN step |-> Pow2(step[i].score - lo)]

RECURSIVE SumSeq(_)
SumSeq(q) == IF q = <<>> THEN 0 ELSE Head(q) + SumSeq(Tail(q))

MinScore(step) == Min({step[i].score : i \in DOMAIN step})

\* Mutant of Deltas: delta += 1 is left out.
Deltas_no_label(step, lbl) ==
    LET e == Exps(step, MinScore(step))
    IN  [i \in DOMAIN step |-> Frac(-e[i], SumSeq(e))]

\* early_update(code, text, ...): the softmax over the last step; delta is
\* -p for every node and 1 - p for the node at index label.
Deltas(step, lbl) ==
    LET e == Exps(step, MinScore(step))
        z == SumSeq(e)
    IN  [i \in DOMAIN step |->
            Frac((IF i - 1 = lbl THEN z ELSE 0) - e[i], z)]

ProbOf(step, lbl) ==
    LET e == Exps(step, MinScore(step))
    IN  Frac(e[lbl + 1], SumSeq(e))

\* What early_update(code, text, ...) leaves when decode fails twice: it
\* returns 0 and touches none of its out-parameters.
EarlyFailed ==
    [pos |-> 0, label |-> 0, prob |-> Frac(0, 1), deltas |-> <<>>, beams |-> <<>>]

\* early_update(code, text, ...) once a reference lattice db was found.
EarlyWith(db, c, bs) ==
    LET pth == get_paths("dest", db)
        idx == [i \in 1..Len(db[Len(db)]) |-> 0]
    IN  {[pos |-> r.pos,
          label |-> LabelOf(r.beams, r.indeces),
          prob |-> ProbOf(r.beams[Len(r.beams)], LabelOf(r.beams, r.indeces)),
          deltas |-> Deltas(r.beams[Len(r.beams)], LabelOf(r.beams, r.indeces)),
          beams |-> r.beams]
         : r \in EarlyFrom(begin_decode(init_beams), pth, idx, c, bs, 1)}

\* Decoder::early_update(code, text, beams, deltas, label, prob)
early_update(c, t, bs) ==
    UNION {IF d1.ok THEN EarlyWith(d1.beams, c, bs)
           ELSE UNION {IF d2.ok THEN EarlyWith(d2.beams, c, bs) ELSE {EarlyFailed}
                       : d2 \in decode("dest", c, t, RetryBeam(bs))}
           : d1 \in decode("dest", c, t, bs)}

\* get_texts: the text of each path, the texts of its words concatenated.
RECURSIVE TextTo(_, _)
TextTo(b, p) ==
    IF p = NullPtr THEN <<>>
    ELSE TextTo(b, At(b, p).prev) \o WordText(At(b, p).word)

get_texts(b) ==
    [i \in 1..Len(b[Len(b)]) |-> TextTo(b, Ptr("beams", Len(b) - 1, i - 1))]

\* predict's search loop: the first index whose text is t, |texts| if none.
TextIndex(texts, t) ==
    LET S == {i \in DOMAIN texts : texts[i] = t}
    IN  IF S = {} THEN Len(texts) ELSE Min(S) - 1

\* predict once decode(code, beams) succeeded with lattice b.  prob0 is the
\* value the caller's prob holds.
PredictWith(b, c, t, bs, prob0) ==
    LET step  == b[Len(b)]
        texts == get_texts(b)
        index == TextIndex(texts, t)
    IN  IF index < Len(texts)
        THEN {[index |-> index,
               prob |-> Frac(Exps(step, MinScore(step))[index + 1],
                             SumSeq(Exps(step, MinScore(step)))),
               texts |-> texts, decoded |-> TRUE, ref |-> FALSE]}
        ELSE {IF d2.ok
              THEN LET front == d2.beams[Len(d2.beams)][1]
                       lo == Min({MinScore(step), front.score})
                       sum == SumSeq(Exps(step, lo)) + Pow2(front.score - lo)
                   IN  [index |-> bs,
                        prob |-> Frac(Pow2(front.score - lo), sum),
                        texts |-> texts, decoded |-> TRUE, ref |-> TRUE]
              ELSE [index |-> index, prob |-> prob0,
                    texts |-> texts, decoded |-> TRUE, ref |-> FALSE]
              : d2 \in decode("beams", c, t, bs)}

\* Decoder::predict(code, text, prob): the index returned and the prob set.
predict(c, t, bs, prob0) ==
    UNION {IF d1.ok THEN PredictWith(d1.beams, c, t, bs, prob0)
           ELSE {[index |-> -1, prob |-> prob0, texts |-> <<>>,
                  decoded |-> FALSE, ref |-> FALSE]}
           : d1 \in decode("beams", c, <<>>, bs)}

\* Features(node): the node's global features, its local features, then
\* the local features of prev, prev->prev, ...
RECURSIVE LocalChain(_, _)
LocalChain(b, p) ==
    IF p = NullPtr THEN <<>>
    ELSE At(b, p).local_features \o LocalChain(b, At(b, p).prev)

Features(b, n) == n.global_features \o n.local_features \o LocalChain(b, n.prev)

\* Model::update(features, deltas): the additions
\* weights[key] += val * delta * learning_rate it performs, in order.
RECURSIVE UpdateTerms(_, _, _)
UpdateTerms(b, ds, i) ==
    IF i > Len(ds) THEN <<>>
    ELSE LET fs == Features(b, b[Len(b)][i])
         IN  [k \in DOMAIN fs |->
                 [key |-> fs[k].key, val |-> fs[k].val, delta |-> ds[i]]]
             \o UpdateTerms(b, ds, i + 1)

\* ------------------------------------------------------------------- steps
\* No batched call is running.
BatchIdle ==
    /\ batch = <<>>
    /\ wpc = <<>>
    /\ phase = "idle"
    /\ loop_i = 0

TrainIdle ==
    /\ positions = <<>>
    /\ b_indeces = <<>>
    /\ probs = <<>>
    /\ batch_beams = <<>>
    /\ batch_deltas = <<>>
    /\ updates = <<>>
    /\ success = 0
    /\ precision = 0
    /\ loss = <<>>
    /\ early_update_count = 0

EvalIdle ==
    /\ stream = <<>>
    /\ batch_size = 0
    /\ rd = 0
    /\ count = 0
    /\ ev_succ = 0
    /\ ev_prec = 0
    /\ ev_inbeam = 0
    /\ ev_loss = <<>>
    /\ w_index = <<>>
    /\ w_prob = <<>>
    /\ w_reg = <<>>
    /\ preds = <<>>

FileIdle ==
    /\ file = <<>>
    /\ before = <<>>
    /\ io_pc = "idle"

\* No loop over Features is running.
IterIdle ==
    /\ it_path = <<>>
    /\ it = <<>>
    /\ yielded = <<>>
    /\ it_pc = "idle"

\* train(is, batch_size, metrics) is not running.
StreamIdle ==
    /\ tr_is = <<>>
    /\ tr_rd = 0
    /\ tr_batch_size = 0
    /\ tr_codes = <<>>
    /\ tr_texts = <<>>
    /\ tr_batch = 0
    /\ tr_count = 0
    /\ passed = <<>>
    /\ tr_pc = "idle"

\* No Lattice has been constructed.
LatticeIdle ==
    /\ length = 0
    /\ capacity = 0
    /\ pool = <<>>
    /\ limits = <<>>
    /\ heap = <<>>
    /\ l_pc = "idle"
    /\ handed = {}
    /\ emplaced = <<>>
    /\ kept = {}
    /\ snap = <<>>

\* No single decode or early update is running.
DecodeIdle ==
    /\ code = <<>>
    /\ text = <<>>
    /\ pc = "idle"
    /\ pos = 0
    /\ succ = TRUE
    /\ cur_bs = beam_size
    /\ attempt = 1
    /\ dest_beams = <<>>
    /\ beams = <<>>
    /\ cand = <<>>
    /\ paths = <<>>
    /\ indeces = <<>>
    /\ label = 0
    /\ ret = 0
    /\ trace = <<>>
    /\ tries = <<>>
    /\ forced = {}
    /\ pruned = FALSE

Init ==
    /\ code \in Codes
    /\ text \in Texts
    /\ beam_size \in BeamSizes
    /\ weights \in [WKeys -> WVals]
    /\ pc = "decode_begin"
    /\ pos = 0
    /\ succ = TRUE
    /\ cur_bs = beam_size
    /\ attempt = 1
    /\ dest_beams = <<>>
    /\ beams = <<>>
    /\ cand = <<>>
    /\ paths = <<>>
    /\ indeces = <<>>
    /\ label = 0
    /\ ret = 0
    /\ trace = <<>>
    /\ tries = <<>>
    /\ forced = {}
    /\ pruned = FALSE
    /\ BatchIdle
    /\ TrainIdle
    /\ EvalIdle
    /\ FileIdle
    /\ LatticeIdle
    /\ IterIdle
    /\ StreamIdle

\* decode(): init_beams, begin_decode.
DecodeBegin ==
    /\ pc = "decode_begin"
    /\ dest_beams' = begin_decode(init_beams)
    /\ pos' = 1
    /\ succ' = TRUE
    /\ pruned' = FALSE
    /\ cand' = <<>>
    /\ pc' = IF 1 <= Len(code) THEN "decode_advance" ELSE "decode_end"
    /\ UNCHANGED <<batch_vars, train_vars, eval_vars, file_vars, lattice_vars, iter_vars, stream_vars, code, text, beam_size, weights, cur_bs, attempt, beams,
                   paths, indeces, label, ret, trace, tries, forced>>

\* decode(): one iteration of the loop, advance(code, text, pos).
DecodeAdvance ==
    /\ pc = "decode_advance"
    /\ LET c == AdvanceCands("dest", dest_beams, code, text, pos)
       IN  /\ cand' = c
           /\ succ' = (c # <<>>)
           /\ pruned' = (pruned \/ Len(c) > cur_bs)
           /\ \E nb \in topk(c, cur_bs) : dest_beams' = Append(dest_beams, nb)
           /\ pc' = IF c = <<>> THEN "decode_return"
                    ELSE IF pos + 1 <= Len(code) THEN "decode_advance"
                    ELSE "decode_end"
    /\ pos' = pos + 1
    /\ UNCHANGED <<batch_vars, train_vars, eval_vars, file_vars, lattice_vars, iter_vars, stream_vars, code, text, beam_size, weights, cur_bs, attempt, beams,
                   paths, indeces, label, ret, trace, tries, forced>>

\* decode(): end_decode(code, text).
DecodeEnd ==
    /\ pc = "decode_end"
    /\ LET c == EndCands("dest", dest_beams, code, text)
       IN  /\ cand' = c
           /\ succ' = (c # <<>>)
           /\ pruned' = (pruned \/ Len(c) > cur_bs)
           /\ \E nb \in topk(c, cur_bs) : dest_beams' = Append(dest_beams, nb)
    /\ pc' = "decode_return"
    /\ UNCHANGED <<batch_vars, train_vars, eval_vars, file_vars, lattice_vars, iter_vars, stream_vars, code, text, beam_size, weights, pos, cur_bs, attempt, beams,
                   paths, indeces, label, ret, trace, tries, forced>>

\* An unconstrained decode(code, lattice) returns to its caller.
DecodeDone ==
    /\ pc = "decode_return"
    /\ text = <<>>
    /\ pc' = "done"
    /\ cand' = <<>>
    /\ UNCHANGED <<batch_vars, train_vars, eval_vars, file_vars, lattice_vars, iter_vars, stream_vars, pruned, code, text, beam_size, weights, pos, succ, cur_bs, attempt,
                   dest_beams, beams, paths, indeces, label, ret, trace, tries, forced>>

\* early_update(code, text, ...): the first decode failed, decode again
\* with beam_size * 2.
Retry ==
    /\ pc = "decode_return"
    /\ text # <<>>
    /\ ~succ
    /\ attempt = 1
    /\ attempt' = 2
    /\ cur_bs' = RetryBeam(beam_size)
    /\ tries' = Append(tries, [bs |-> cur_bs, ok |-> succ])
    /\ pc' = "decode_begin"
    /\ cand' = <<>>
    /\ UNCHANGED <<batch_vars, train_vars, eval_vars, file_vars, lattice_vars, iter_vars, stream_vars, pruned, code, text, beam_size, weights, pos, succ, dest_beams,
                   beams, paths, indeces, label, ret, trace, forced>>

\* early_update(code, text, ...): both decodes failed, return 0.
Undecodable ==
    /\ pc = "decode_return"
    /\ text # <<>>
    /\ ~succ
    /\ attempt = 2
    /\ ret' = 0
    /\ tries' = Append(tries, [bs |-> cur_bs, ok |-> succ])
    /\ pc' = "done"
    /\ cand' = <<>>
    /\ UNCHANGED <<batch_vars, train_vars, eval_vars, file_vars, lattice_vars, iter_vars, stream_vars, pruned, code, text, beam_size, weights, pos, succ, cur_bs, attempt,
                   dest_beams, beams, paths, indeces, label, trace, forced>>

\* early_update(code, text, ...): paths = get_paths(dest_beams), then
\* early_update(code, paths, beams, label) up to its loop.
EUBegin ==
    /\ pc = "decode_return"
    /\ text # <<>>
    /\ succ
    /\ paths' = get_paths("dest", dest_beams)
    /\ beams' = begin_decode(init_beams)
    /\ indeces' = [i \in 1..Len(dest_beams[Len(dest_beams)]) |-> 0]
    /\ pos' = 1
    /\ pc' = IF 1 <= Len(code) THEN "eu_advance" ELSE "eu_end"
    /\ cand' = <<>>
    /\ tries' = Append(tries, [bs |-> cur_bs, ok |-> succ])
    /\ UNCHANGED <<batch_vars, train_vars, eval_vars, file_vars, lattice_vars, iter_vars, stream_vars, pruned, code, text, beam_size, weights, succ, cur_bs, attempt,
                   dest_beams, label, ret, trace, forced>>

\* early_update: advance(code, "", pos, beam_size, beams); its result is
\* not looked at.
EUAdvance ==
    /\ pc = "eu_advance"
    /\ LET c == AdvanceCands("beams", beams, code, <<>>, pos)
       IN  /\ cand' = c
           /\ \E nb \in topk(c, beam_size) : beams' = Append(beams, nb)
    /\ trace' = Append(trace, [op |-> "advance", pos |-> pos, found |-> FALSE])
    /\ pc' = "eu_match"
    /\ UNCHANGED <<batch_vars, train_vars, eval_vars, file_vars, lattice_vars, iter_vars, stream_vars, pruned, code, text, beam_size, weights, pos, succ, cur_bs, attempt,
                   dest_beams, paths, indeces, label, ret, tries, forced>>

\* early_update: end_decode(code, "", beam_size, beams).
EUEnd ==
    /\ pc = "eu_end"
    /\ LET c == EndCands("beams", beams, code, <<>>)
       IN  /\ cand' = c
           /\ \E nb \in topk(c, beam_size) : beams' = Append(beams, nb)
    /\ trace' = Append(trace, [op |-> "end_decode", pos |-> pos, found |-> FALSE])
    /\ pc' = "eu_match"
    /\ UNCHANGED <<batch_vars, train_vars, eval_vars, file_vars, lattice_vars, iter_vars, stream_vars, pruned, code, text, beam_size, weights, pos, succ, cur_bs, attempt,
                   dest_beams, paths, indeces, label, ret, tries, forced>>

\* early_update: succ = match(beams, paths, pos, indeces), then the loop's
\* ++pos and test (pos <= |code|), or the ++pos after the end_decode step.
EUMatch ==
    /\ pc = "eu_match"
    /\ LET m == match(beams, paths, pos, indeces)
       IN  /\ beams' = m.beams
           /\ indeces' = m.indeces
           /\ succ' = m.found
           /\ forced' = forced \cup m.forced
           /\ trace' = Append(trace, [op |-> "match", pos |-> pos,
                                      found |-> m.found])
           /\ pos' = IF pos <= Len(code) \/ m.found THEN pos + 1 ELSE pos
           /\ pc' = IF ~m.ok THEN "abort" ELSE AfterMatch(code, pos, m.found)
    /\ cand' = <<>>
    /\ UNCHANGED <<batch_vars, train_vars, eval_vars, file_vars, lattice_vars, iter_vars, stream_vars, pruned, code, text, beam_size, weights, cur_bs, attempt,
                   dest_beams, paths, label, ret, tries>>

\* early_update: pick the label and return pos.
EULabel ==
    /\ pc = "eu_label"
    /\ IF \E i \in 1..Len(indeces) : indeces[i] < Len(beams[Len(beams)])
       THEN label' = LabelOf(beams, indeces) /\ ret' = pos /\ pc' = "done"
       ELSE label' = label /\ ret' = ret /\ pc' = "abort"
    /\ UNCHANGED <<batch_vars, train_vars, eval_vars, file_vars, lattice_vars, iter_vars, stream_vars, pruned, code, text, beam_size, weights, pos, succ, cur_bs, attempt,
                   dest_beams, beams, cand, paths, indeces, trace, tries, forced>>

Next ==
    \/ DecodeBegin
    \/ DecodeAdvance
    \/ DecodeEnd
    \/ DecodeDone
    \/ Retry
    \/ Undecodable
    \/ EUBegin
    \/ EUAdvance
    \/ EUEnd
    \/ EUMatch
    \/ EULabel

Spec == Init /\ [][Next]_vars

\* ------------------------------------------------------- batched training
MaxBatch == 2

\* The training samples a batch is drawn from.
TrainSamples ==
    { [code |-> <<"a", "b">>, text |-> <<"A", "B">>],
      [code |-> <<"a", "b">>, text |-> <<"C">>],
      [code |-> <<"x", "x">>, text |-> <<"Z">>] }

Batches == UNION {[1..n -> TrainSamples] : n \in 1..MaxBatch}

\* The weights a batch starts from.
TrainWeights ==
    { [k \in WKeys |-> IF k = Unigram(<<"A", "B">>) THEN 1
                       ELSE IF k = Unigram(<<"A">>) THEN -1 ELSE 0],
      [k \in WKeys |-> IF k = CodeLen(1) THEN -1 ELSE 1] }

\* Mutant of ParallelDone: the calling thread goes on when one iteration
\* has finished.
ParallelDone_any(w) == \E i \in DOMAIN w : w[i] = "done"

\* The end of "#pragma omp parallel for": every iteration has finished.
ParallelDone(w) == \A i \in DOMAIN w : w[i] = "done"

\* Mutant of Decoded: every sample is taken as decoded.
Decoded_always(p) == TRUE

\* if (positions[i] > 0)
Decoded(p) == p > 0

InitTrain ==
    /\ beam_size \in BeamSizes
    /\ weights \in TrainWeights
    /\ DecodeIdle
    /\ batch \in Batches
    /\ wpc = [i \in DOMAIN batch |-> "todo"]
    /\ phase = "parallel"
    /\ loop_i = 0
    /\ positions = [i \in DOMAIN batch |-> 0]
    /\ b_indeces = [i \in DOMAIN batch |-> 0]
    /\ probs = [i \in DOMAIN batch |-> Frac(0, 1)]
    /\ batch_beams = [i \in DOMAIN batch |-> <<>>]
    /\ batch_deltas = [i \in DOMAIN batch |-> <<>>]
    /\ updates = <<>>
    /\ success = 0
    /\ precision = 0
    /\ loss = <<>>
    /\ early_update_count = 0
    /\ EvalIdle
    /\ FileIdle
    /\ LatticeIdle
    /\ IterIdle
    /\ StreamIdle

\* One iteration of the parallel loop of update(codes, texts, positions,
\* indeces, probs): early_update for sample i.  The iterations share only
\* the model and the dictionary, which they read.
TrainWorker ==
    \E i \in DOMAIN batch :
        /\ wpc[i] = "todo"
        /\ \E r \in early_update(batch[i].code, batch[i].text, beam_size) :
              /\ positions' = [positions EXCEPT ![i] = r.pos]
              /\ b_indeces' = [b_indeces EXCEPT ![i] = r.label]
              /\ probs' = [probs EXCEPT ![i] = r.prob]
              /\ batch_beams' = [batch_beams EXCEPT ![i] = r.beams]
              /\ batch_deltas' = [batch_deltas EXCEPT ![i] = r.deltas]
        /\ wpc' = [wpc EXCEPT ![i] = "done"]
        /\ UNCHANGED <<decode_vars, eval_vars, file_vars, lattice_vars, iter_vars, stream_vars, batch, phase, loop_i, updates, success,
                       precision, loss, early_update_count>>

\* The calling thread leaves the parallel loop.
TrainJoin ==
    /\ phase = "parallel"
    /\ ParallelDone(wpc)
    /\ phase' = "apply"
    /\ loop_i' = 1
    /\ UNCHANGED <<decode_vars, eval_vars, file_vars, lattice_vars, iter_vars, stream_vars, batch, wpc, train_vars>>

\* One iteration of the serial loop: model.update for a decoded sample.
TrainApply ==
    /\ phase = "apply"
    /\ loop_i <= Len(batch)
    /\ Decoded(positions[loop_i])
    /\ updates' = Append(updates,
           [sample |-> loop_i,
            terms |-> UpdateTerms(batch_beams[loop_i], batch_deltas[loop_i], 1)])
    /\ loop_i' = loop_i + 1
    /\ UNCHANGED <<decode_vars, eval_vars, file_vars, lattice_vars, iter_vars, stream_vars, batch, wpc, phase, positions, b_indeces, probs,
                   batch_beams, batch_deltas, success, precision, loss,
                   early_update_count>>

\* One iteration of the serial loop for a sample that was not decoded.
TrainSkip ==
    /\ phase = "apply"
    /\ loop_i <= Len(batch)
    /\ ~Decoded(positions[loop_i])
    /\ loop_i' = loop_i + 1
    /\ UNCHANGED <<decode_vars, eval_vars, file_vars, lattice_vars, iter_vars, stream_vars, batch, wpc, phase, train_vars>>

\* update(codes, texts, positions, indeces, probs) returns.
TrainApplied ==
    /\ phase = "apply"
    /\ loop_i > Len(batch)
    /\ phase' = "count"
    /\ loop_i' = 1
    /\ UNCHANGED <<decode_vars, eval_vars, file_vars, lattice_vars, iter_vars, stream_vars, batch, wpc, train_vars>>

\* One iteration of the counting loop of update(codes, texts, success,
\* precision, loss, early_update_count).
TrainCount ==
    /\ phase = "count"
    /\ loop_i <= Len(batch)
    /\ LET i == loop_i
       IN  IF Decoded(positions[i])
           THEN /\ success' = success + 1
                /\ early_update_count' =
                      IF positions[i] < Len(batch[i].code) + 2
                      THEN early_update_count + 1 ELSE early_update_count
                /\ precision' =
                      IF b_indeces[i] = 0 THEN precision + 1 ELSE precision
                /\ loss' = Append(loss, probs[i])
           ELSE UNCHANGED <<success, early_update_count, precision, loss>>
    /\ loop_i' = loop_i + 1
    /\ phase' = IF loop_i + 1 > Len(batch) THEN "done" ELSE phase
    /\ UNCHANGED <<decode_vars, eval_vars, file_vars, lattice_vars, iter_vars, stream_vars, batch, wpc, positions, b_indeces, probs,
                   batch_beams, batch_deltas, updates>>

NextTrain ==
    \/ TrainWorker
    \/ TrainJoin
    \/ TrainApply
    \/ TrainSkip
    \/ TrainApplied
    \/ TrainCount

SpecTrain == InitTrain /\ [][NextTrain]_vars


\* ------------------------------------------------------ batched evaluation
\* The labelled samples a stream is made of.
EvalSamples ==
    { [code |-> <<"a", "b">>, text |-> <<"A", "B">>],
      [code |-> <<"a", "b">>, text |-> <<"C">>],
      [code |-> <<"a">>,      text |-> <<"Z">>],
      [code |-> <<"x", "x">>, text |-> <<"Z">>] }

Streams == UNION {[1..n -> EvalSamples] : n \in 1..MaxBatch}

EvalBatchSizes == {1, 2}

\* Decoder::evaluate(is, metrics), the sequential loop, over the first k
\* predictions pr: the counters it ends with.
RECURSIVE evaluate(_, _, _)
evaluate(pr, k, bs) ==
    IF k = 0 THEN [succ |-> 0, prec |-> 0, inbeam |-> 0, loss |-> <<>>]
    ELSE LET m == evaluate(pr, k - 1, bs)
             index == pr[k].index
         IN  IF index >= 0
             THEN [succ |-> m.succ + 1,
                   inbeam |-> IF index < bs THEN m.inbeam + 1 ELSE m.inbeam,
                   prec |-> IF index < bs /\ index = 0 THEN m.prec + 1 ELSE m.prec,
                   loss |-> Append(m.loss, pr[k].prob)]
             ELSE m

InitEval ==
    /\ beam_size \in BeamSizes
    /\ weights \in TrainWeights
    /\ DecodeIdle
    /\ TrainIdle
    /\ stream \in Streams
    /\ batch_size \in EvalBatchSizes
    /\ rd = 0
    /\ count = 0
    /\ ev_succ = 0
    /\ ev_prec = 0
    /\ ev_inbeam = 0
    /\ ev_loss = <<>>
    /\ batch = <<>>
    /\ wpc = <<>>
    /\ w_index = <<>>
    /\ w_prob = <<>>
    /\ w_reg = <<>>
    /\ preds = <<>>
    /\ phase = "read"
    /\ loop_i = 0
    /\ FileIdle
    /\ LatticeIdle
    /\ IterIdle
    /\ StreamIdle

\* The inner reading loop: up to batch_size samples are taken from the
\* stream, count += codes.size(), and the parallel loop starts.
EvalRead ==
    /\ phase = "read"
    /\ rd < Len(stream)
    /\ LET n == IF Len(stream) - rd < batch_size
                THEN Len(stream) - rd ELSE batch_size
       IN  /\ batch' = SubSeq(stream, rd + 1, rd + n)
           /\ rd' = rd + n
           /\ count' = count + n
           /\ wpc' = [i \in 1..n |-> "todo"]
           /\ w_index' = [i \in 1..n |-> 0]
           /\ w_prob' = [i \in 1..n |-> Frac(0, 1)]
           /\ w_reg' = [i \in 1..n |-> 0]
    /\ phase' = "parallel"
    /\ UNCHANGED <<decode_vars, train_vars, file_vars, lattice_vars, iter_vars, stream_vars, loop_i, stream, batch_size,
                   ev_succ, ev_prec, ev_inbeam, ev_loss, preds>>

\* An iteration of the parallel loop: double prob = 0; index = predict(...).
EvalPredict ==
    \E i \in DOMAIN batch :
        /\ wpc[i] = "todo"
        /\ \E r \in predict(batch[i].code, batch[i].text, beam_size, Frac(0, 1)) :
              /\ w_index' = [w_index EXCEPT ![i] = r.index]
              /\ w_prob' = [w_prob EXCEPT ![i] = r.prob]
              /\ preds' = preds @@ ((rd - Len(batch) + i) :> r)
              /\ wpc' = [wpc EXCEPT ![i] =
                            IF r.index >= 0 THEN "succ_load" ELSE "done"]
        /\ UNCHANGED <<decode_vars, train_vars, file_vars, lattice_vars, iter_vars, stream_vars, batch, phase, loop_i, stream,
                       batch_size, rd, count, ev_succ, ev_prec, ev_inbeam,
                       ev_loss, w_reg>>

\* ++succ, loss -= log(prob), ++inbeam, ++prec inside the parallel loop are
\* plain read-modify-write sequences on shared variables: the read.
EvalLoad ==
    \E i \in DOMAIN batch :
        /\ wpc[i] \in {"succ_load", "loss_load", "inbeam_load", "prec_load"}
        /\ w_reg' = [w_reg EXCEPT ![i] =
                        CASE wpc[i] = "succ_load" -> ev_succ
                          [] wpc[i] = "loss_load" -> ev_loss
                          [] wpc[i] = "inbeam_load" -> ev_inbeam
                          [] wpc[i] = "prec_load" -> ev_prec]
        /\ wpc' = [wpc EXCEPT ![i] =
                        CASE wpc[i] = "succ_load" -> "succ_store"
                          [] wpc[i] = "loss_load" -> "loss_store"
                          [] wpc[i] = "inbeam_load" -> "inbeam_store"
                          [] wpc[i] = "prec_load" -> "prec_store"]
        /\ UNCHANGED <<decode_vars, train_vars, file_vars, lattice_vars, iter_vars, stream_vars, batch, phase, loop_i, stream,
                       batch_size, rd, count, ev_succ, ev_prec, ev_inbeam,
                       ev_loss, w_index, w_prob, preds>>

\* The write that ends a read-modify-write, and the tests that follow it.
EvalStore ==
    \E i \in DOMAIN batch :
        /\ wpc[i] \in {"succ_store", "loss_store", "inbeam_store", "prec_store"}
        /\ ev_succ' = IF wpc[i] = "succ_store" THEN w_reg[i] + 1 ELSE ev_succ
        /\ ev_loss' = IF wpc[i] = "loss_store"
                      THEN Append(w_reg[i], w_prob[i]) ELSE ev_loss
        /\ ev_inbeam' = IF wpc[i] = "inbeam_store" THEN w_reg[i] + 1 ELSE ev_inbeam
        /\ ev_prec' = IF wpc[i] = "prec_store" THEN w_reg[i] + 1 ELSE ev_prec
        /\ wpc' = [wpc EXCEPT ![i] =
                        CASE wpc[i] = "succ_store" -> "loss_load"
                          [] wpc[i] = "loss_store" ->
                                IF w_index[i] < beam_size
                                THEN "inbeam_load" ELSE "done"
                          [] wpc[i] = "inbeam_store" ->
                                IF w_index[i] = 0 THEN "prec_load" ELSE "done"
                          [] wpc[i] = "prec_store" -> "done"]
        /\ UNCHANGED <<decode_vars, train_vars, file_vars, lattice_vars, iter_vars, stream_vars, batch, phase, loop_i, stream,
                       batch_size, rd, count, w_index, w_prob, w_reg, preds>>

\* The parallel loop ends; the outer loop tests is.eof().
EvalJoin ==
    /\ phase = "parallel"
    /\ ParallelDone(wpc)
    /\ phase' = IF rd < Len(stream) THEN "read" ELSE "done"
    /\ UNCHANGED <<decode_vars, train_vars, file_vars, lattice_vars, iter_vars, stream_vars, batch, wpc, loop_i, eval_vars>>

NextEval ==
    \/ EvalRead
    \/ EvalPredict
    \/ EvalLoad
    \/ EvalStore
    \/ EvalJoin

SpecEval == InitEval /\ [][NextEval]_vars

\* --------------------------------------------------------------- model file
\* A weight is a decimal number: the integer n stands for n * 10^-9.  A
\* line of the file is [key, num]: a feature key and the text of a number,
\* the sequence of decimal digits of its magnitude in the same unit, with a
\* sign.  The key of a blank line is the empty string.
MaxLines == 2

FileKeys == {"unigram:A", "code_len:1"}

\* 0, -2.5e-08, 0.01 and 0.006666667 (0.01 * (1 - 1/3), to nine places).
Doubles == {0, -25, 10000000, 6666667}

\* std::ostream's precision: the significant digits operator << writes.
Precision == 6

RECURSIVE Pow10(_)
Pow10(k) == IF k <= 0 THEN 1 ELSE 10 * Pow10(k - 1)

RECURSIVE NumDigits(_)
NumDigits(a) == IF a < 10 THEN 1 ELSE 1 + NumDigits(a \div 10)

RECURSIVE Digits(_)
Digits(a) == IF a < 10 THEN <<a>> ELSE Append(Digits(a \div 10), a % 10)

RECURSIVE FromDigits(_)
FromDigits(ds) ==
    IF ds = <<>> THEN 0
    ELSE 10 * FromDigits(SubSeq(ds, 1, Len(ds) - 1)) + ds[Len(ds)]

\* The magnitude a is written with: a rounded to Precision significant
\* digits.
Rounded(a) ==
    IF NumDigits(a) <= Precision THEN a
    ELSE LET q == Pow10(NumDigits(a) - Precision)
         IN  ((a + q \div 2) \div q) * q

\* os << weight
FormatDouble(n) == [neg |-> n < 0, digits |-> Digits(Rounded(Abs(n)))]

\* ss >> weight
ParseDouble(t) == IF t.neg THEN -FromDigits(t.digits) ELSE FromDigits(t.digits)

FileLine(k, n) == [key |-> k, num |-> FormatDouble(n)]

BlankLine == [key |-> "", num |-> FormatDouble(0)]

\* The orders in which the keys of an unordered_map may be iterated.
RECURSIVE KeyOrders(_)
KeyOrders(K) ==
    IF K = {} THEN {<<>>}
    ELSE UNION {{<<k>> \o r : r \in KeyOrders(K \ {k})} : k \in K}

\* Model::save: one line per weight, in iteration order.
save(w) ==
    {[i \in DOMAIN o |-> FileLine(o[i], w[o[i]])] : o \in KeyOrders(DOMAIN w)}

\* The loop of Model::load from line i on: weights.emplace(feature, weight)
\* for every line with a non-empty feature.
RECURSIVE LoadFrom(_, _, _)
LoadFrom(w, f, i) ==
    IF i > Len(f) THEN w
    ELSE LoadFrom(IF f[i].key # "" /\ f[i].key \notin DOMAIN w
                  THEN w @@ (f[i].key :> ParseDouble(f[i].num))
                  ELSE w,
                  f, i + 1)

\* Mutant of load: the weights held are not cleared.
load_no_clear(w, f) == LoadFrom(w, f, 1)

\* Model::load: weights.clear(), then the loop.
load(w, f) == LoadFrom(<<>>, f, 1)

\* The weight maps and the files the model is run on.
WeightMaps == UNION {[K -> Doubles] : K \in SUBSET FileKeys}

Lines == {FileLine(k, n) : k \in FileKeys, n \in Doubles} \cup {BlankLine}

Files == UNION {[1..n -> Lines] : n \in 0..MaxLines}

InitModel ==
    /\ beam_size \in BeamSizes
    /\ weights \in WeightMaps
    /\ DecodeIdle
    /\ BatchIdle
    /\ TrainIdle
    /\ EvalIdle
    /\ file \in Files
    /\ before = <<>>
    /\ io_pc = "idle"
    /\ LatticeIdle
    /\ IterIdle
    /\ StreamIdle

\* model.save(os)
ModelSave ==
    /\ io_pc = "idle"
    /\ file' \in save(weights)
    /\ before' = weights
    /\ io_pc' = "saved"
    /\ UNCHANGED <<decode_vars, batch_vars, train_vars, eval_vars, lattice_vars, iter_vars, stream_vars>>

\* model.load(is) on a file some other program wrote.
ModelLoad ==
    /\ io_pc = "idle"
    /\ weights' = load(weights, file)
    /\ before' = weights
    /\ io_pc' = "loaded"
    /\ UNCHANGED <<code, text, beam_size, pc, pos, succ, cur_bs, attempt,
                   dest_beams, beams, cand, paths, indeces, label, ret, trace,
                   tries, forced, pruned, batch_vars, train_vars, eval_vars, file,
                   lattice_vars, iter_vars, stream_vars>>

\* model.load(is) on the file model.save has just written.
ModelReload ==
    /\ io_pc = "saved"
    /\ weights' = load(weights, file)
    /\ io_pc' = "reloaded"
    /\ UNCHANGED <<code, text, beam_size, pc, pos, succ, cur_bs, attempt,
                   dest_beams, beams, cand, paths, indeces, label, ret, trace,
                   tries, forced, pruned, batch_vars, train_vars, eval_vars,
                   file, before, lattice_vars, iter_vars, stream_vars>>

NextModel ==
    \/ ModelSave
    \/ ModelLoad
    \/ ModelReload

SpecModel == InitModel /\ [][NextModel]_vars

\* ------------------------------------------------------------------ lattice
\* Lattice keeps its nodes in one allocation of capacity nodes.  A pointer
\* into it is an offset from pool; the memory right above the allocation is
\* modelled too, so that a pointer past the end is a value like any other.
\* A node is [id, score]; the other fields of Node are not touched by
\* Lattice.
MaxLatticeLen == 2

MaxEmplace == 3

LatticeScores == {1, 2}

\* Memory that holds no constructed node.
Raw == [id |-> <<0, 0>>, score |-> 0]

\* What memory outside the allocation may hold after a write to it.
Garbage == [id |-> <<0, 0>>, score |-> -1]

\* Node(): the root.
RootNode == [id |-> <<0, 1>>, score |-> 0]

\* The offsets modelled: the allocation and what a step past it can reach.
Offsets(len, bs) == 0..((len + 1) * bs + 1)

\* Lattice::init: new_capacity.
NewCapacity(len, bs) == len * bs + 2

\* *(limits.cend() - 2): where the current step starts.
StepStart == limits[Len(limits) - 1]

\* construct(allocator, p, node): inside the allocation p holds the node
\* afterwards; a write outside it is undefined.
Construct(pl, p, node) ==
    IF p < capacity THEN {[pl EXCEPT ![p] = node]}
    ELSE {[pl EXCEPT ![p] = node], [pl EXCEPT ![p] = Garbage]}

\* Lattice::alloc: the slot returned, and limits and heap afterwards.
alloc ==
    IF Last(limits) <= StepStart + beam_size
    THEN [p |-> Last(limits),
          limits |-> [limits EXCEPT ![Len(limits)] = @ + 1],
          heap |-> heap]
    ELSE [p |-> Last(heap),
          limits |-> limits,
          heap |-> SubSeq(heap, 1, Len(heap) - 1)]

\* The steps a decode of a code of length len takes after the root step:
\* one per code position and the end step.
StepsOf(len) == len + 1

\* Lattice lattice(len, bs): the constructor calls init on an empty object.
InitLattice ==
    /\ beam_size \in BeamSizes
    /\ weights = <<>>
    /\ DecodeIdle
    /\ BatchIdle
    /\ TrainIdle
    /\ EvalIdle
    /\ FileIdle
    /\ IterIdle
    /\ StreamIdle
    /\ length \in 1..MaxLatticeLen
    /\ capacity = NewCapacity(length, beam_size)
    /\ pool = [o \in Offsets(length, beam_size) |-> IF o = 0 THEN RootNode ELSE Raw]
    /\ limits = <<0, 1>>
    /\ heap = <<>>
    /\ l_pc = "ready"
    /\ handed = {}
    /\ emplaced = <<>>
    /\ kept = {}
    /\ snap = pool

\* lattice.begin_step()
LatticeBeginStep ==
    /\ l_pc = "ready"
    /\ Len(limits) - 2 < StepsOf(length)
    /\ limits' = Append(limits, Last(limits))
    /\ heap' = <<>>
    /\ l_pc' = "emplace"
    /\ emplaced' = <<>>
    /\ kept' = {}
    /\ snap' = pool
    /\ UNCHANGED <<decode_vars, batch_vars, train_vars, eval_vars, file_vars, iter_vars, stream_vars,
                   length, capacity, pool, handed>>

\* lattice.emplace(node).  The end step gets one node for each node of the
\* step before it, every other step any number of nodes.
LatticeEmplace ==
    /\ l_pc = "emplace"
    /\ Len(emplaced) < MaxEmplace
    /\ Len(limits) - 2 = StepsOf(length) =>
          Len(emplaced) < StepStart - limits[Len(limits) - 2]
    /\ \E sc \in LatticeScores :
          LET node == [id |-> <<Len(limits) - 2, Len(emplaced) + 1>>, score |-> sc]
              a    == alloc
          IN  /\ pool' \in Construct(pool, a.p, node)
              /\ limits' = a.limits
              /\ heap' = Append(a.heap, a.p)
              /\ handed' = handed \cup {a.p}
              /\ emplaced' = Append(emplaced, node)
              /\ kept' = kept \cup {node}
    /\ l_pc' = "topk"
    /\ UNCHANGED <<decode_vars, batch_vars, train_vars, eval_vars, file_vars, iter_vars, stream_vars,
                   length, capacity, snap>>

\* lattice.topk(node): nothing below beam_size candidates, a min-heap on
\* score at beam_size, and above that push_heap and pop_heap, which leave a
\* candidate of the lowest score at heap.back().
LatticeTopk ==
    /\ l_pc = "topk"
    /\ IF Len(heap) <= beam_size
       THEN UNCHANGED <<heap, kept>>
       ELSE \E e \in DOMAIN heap :
               /\ \A k \in DOMAIN heap : pool[heap[e]].score <= pool[heap[k]].score
               /\ heap' = [k \in DOMAIN heap |->
                              IF k < e THEN heap[k]
                              ELSE IF k < Len(heap) THEN heap[k + 1]
                              ELSE heap[e]]
               /\ kept' = {pool[heap[k]] : k \in DOMAIN heap \ {e}}
    /\ l_pc' = "emplace"
    /\ UNCHANGED <<decode_vars, batch_vars, train_vars, eval_vars, file_vars, iter_vars, stream_vars,
                   length, capacity, pool, limits, handed, emplaced, snap>>

\* lattice.end_step()
LatticeEndStep ==
    /\ l_pc = "emplace"
    /\ emplaced # <<>>
    /\ IF Last(limits) > StepStart + beam_size
       THEN LET t == Last(limits) - 1
                e == Last(heap)
            IN  /\ limits' = [limits EXCEPT ![Len(limits)] = t]
                /\ heap' = SubSeq(heap, 1, Len(heap) - 1)
                /\ pool' \in {[pl EXCEPT ![t] = Raw] :
                                pl \in IF e # t THEN Construct(pool, e, pool[t])
                                       ELSE {pool}}
       ELSE UNCHANGED <<limits, heap, pool>>
    /\ l_pc' = "ready"
    /\ UNCHANGED <<decode_vars, batch_vars, train_vars, eval_vars, file_vars, iter_vars, stream_vars,
                   length, capacity, handed, emplaced, kept, snap>>

NextLattice ==
    \/ LatticeBeginStep
    \/ LatticeEmplace
    \/ LatticeTopk
    \/ LatticeEndStep

SpecLattice == InitLattice /\ [][NextLattice]_vars

\* ------------------------------------------------------- feature iteration
\* Features(rear) and its Iterator, run by a range-based for loop.  The
\* nodes of a path are kept root first; prev is the index of the node
\* before, 0 for nullptr.  A position in a feature list is an index, the
\* list's end being its length plus one.
MaxPath == 2

FeatureA == <<"unigram:A", 1>>
FeatureB == <<"code_len:1", 1>>

\* The feature lists a node may carry.
FeatureLists == {<<>>, <<FeatureA>>, <<FeatureB, FeatureA>>, <<FeatureA, FeatureA>>}

IterNodes(n) ==
    {[k \in 1..n |-> [prev |-> k - 1, local_features |-> lf[k],
                      global_features |-> gf[k]]]
       : lf \in [1..n -> FeatureLists], gf \in [1..n -> FeatureLists]}

\* The paths the loop is run on; the rear is the last node.
IterPaths == UNION {IterNodes(n) : n \in 1..MaxPath}

\* The list the iterator is in.
CurList(path, st) ==
    IF st.local THEN path[st.node].local_features
    ELSE path[st.node].global_features

\* Mutant of force_valid: the local features of the first node are skipped.
RECURSIVE force_valid_skip_local(_, _)
force_valid_skip_local(path, st) ==
    IF st.iter = st.end /\ st.node # 0
    THEN LET pv == path[st.node].prev
         IN  IF pv # 0
             THEN force_valid_skip_local(path,
                      [node |-> pv, local |-> TRUE, iter |-> 1,
                       end |-> Len(path[pv].local_features) + 1])
             ELSE [st EXCEPT !.node = 0, !.local = TRUE]
    ELSE st

\* Iterator::force_valid
RECURSIVE force_valid(_, _)
force_valid(path, st) ==
    IF st.iter = st.end /\ st.node # 0
    THEN IF ~st.local
         THEN force_valid(path,
                  [node |-> st.node, local |-> TRUE, iter |-> 1,
                   end |-> Len(path[st.node].local_features) + 1])
         ELSE LET pv == path[st.node].prev
              IN  IF pv # 0
                  THEN force_valid(path,
                           [node |-> pv, local |-> TRUE, iter |-> 1,
                            end |-> Len(path[pv].local_features) + 1])
                  ELSE force_valid(path, [st EXCEPT !.node = 0])
    ELSE st

\* Iterator(p): p is not nullptr.
Iterator(path, p) ==
    force_valid(path, [node |-> p, local |-> FALSE, iter |-> 1,
                       end |-> Len(path[p].global_features) + 1])

\* operator != (end()): end() is Iterator(), whose node is nullptr.
NotAtEnd(st) == st.node # 0

\* Model::score's loops: the local features of node, node.prev, ... and
\* then the global features of node, as the terms it sums.
RECURSIVE LocalTerms(_, _)
LocalTerms(path, p) ==
    IF p = 0 THEN <<>>
    ELSE path[p].local_features \o LocalTerms(path, path[p].prev)

ScoreTerms(path, p) == LocalTerms(path, p) \o path[p].global_features

InitIter ==
    /\ beam_size \in BeamSizes
    /\ weights = <<>>
    /\ DecodeIdle
    /\ BatchIdle
    /\ TrainIdle
    /\ EvalIdle
    /\ FileIdle
    /\ LatticeIdle
    /\ StreamIdle
    /\ it_path \in IterPaths
    /\ it = <<>>
    /\ yielded = <<>>
    /\ it_pc = "begin"

\* for (auto &f : features): the iterator is made from begin() and compared
\* with end().
IterBegin ==
    /\ it_pc = "begin"
    /\ it' = Iterator(it_path, Len(it_path))
    /\ it_pc' = IF NotAtEnd(it') THEN "body" ELSE "end"
    /\ UNCHANGED <<decode_vars, batch_vars, train_vars, eval_vars, file_vars,
                   lattice_vars, stream_vars, it_path, yielded>>

\* The body of the loop reads *iter.
IterDeref ==
    /\ it_pc = "body"
    /\ yielded' = Append(yielded, CurList(it_path, it)[it.iter])
    /\ it_pc' = "incr"
    /\ UNCHANGED <<decode_vars, batch_vars, train_vars, eval_vars, file_vars,
                   lattice_vars, stream_vars, it_path, it>>

\* operator ++ and the comparison with end().
IterIncr ==
    /\ it_pc = "incr"
    /\ it' = force_valid(it_path, [it EXCEPT !.iter = @ + 1])
    /\ it_pc' = IF NotAtEnd(it') THEN "body" ELSE "end"
    /\ UNCHANGED <<decode_vars, batch_vars, train_vars, eval_vars, file_vars,
                   lattice_vars, stream_vars, it_path, yielded>>

NextIter ==
    \/ IterBegin
    \/ IterDeref
    \/ IterIncr

\* The loop runs on until it ends.
SpecIter == InitIter /\ [][NextIter]_vars /\ WF_vars(NextIter)

\* ------------------------------------------------------- batched train loop
\* Decoder::train(is, batch_size, metrics).  The stream is the sequence of
\* its lines as std::getline delivers them until eof, each line the
\* sequence of its whitespace-separated fields.  What a batch update does
\* to the weights and the counters is SpecTrain's matter; here the call is
\* recorded in passed.
MaxStream == 4

TrainLines ==
    { <<>>,
      <<"ab">>,
      <<"ab", "AB">>,
      <<"ab", "C">>,
      <<"xx", "Z", "1">> }

TrainStreams == UNION {[1..n -> TrainLines] : n \in 1..MaxStream}

\* ss >> code >> text: a field that is not there leaves the string empty.
CodeOf(line) == IF Len(line) >= 1 THEN line[1] ELSE ""
TextOf(line) == IF Len(line) >= 2 THEN line[2] ELSE ""

\* if (!code.empty() && !text.empty())
IsSample(line) == CodeOf(line) # "" /\ TextOf(line) # ""

\* Mutant of BatchFull: the batch is passed on one sample late.
BatchFull_late(n, bs) == n > bs

\* if (codes.size() >= batch_size)
BatchFull(n, bs) == n >= bs

InitStream ==
    /\ beam_size \in BeamSizes
    /\ weights = <<>>
    /\ DecodeIdle
    /\ BatchIdle
    /\ TrainIdle
    /\ EvalIdle
    /\ FileIdle
    /\ LatticeIdle
    /\ IterIdle
    /\ tr_is \in TrainStreams
    /\ tr_rd = 0
    /\ tr_batch_size \in 0..MaxBatch
    /\ tr_codes = <<>>
    /\ tr_texts = <<>>
    /\ tr_batch = 0
    /\ tr_count = 0
    /\ passed = <<>>
    /\ tr_pc = "read"

\* One round of the while loop: a line is read; a sample is collected and,
\* when the batch is full, passed to update, counted and cleared.
StreamLine ==
    /\ tr_pc = "read"
    /\ tr_rd < Len(tr_is)
    /\ tr_rd' = tr_rd + 1
    /\ LET line == tr_is[tr_rd + 1]
           cs   == Append(tr_codes, CodeOf(line))
           ts   == Append(tr_texts, TextOf(line))
       IN  IF ~IsSample(line)
           THEN UNCHANGED <<tr_codes, tr_texts, tr_batch, tr_count, passed>>
           ELSE IF BatchFull(Len(cs), tr_batch_size)
           THEN /\ passed' = Append(passed, [codes |-> cs, texts |-> ts])
                /\ tr_batch' = tr_batch + 1
                /\ tr_count' = tr_count + Len(cs)
                /\ tr_codes' = <<>>
                /\ tr_texts' = <<>>
           ELSE /\ tr_codes' = cs
                /\ tr_texts' = ts
                /\ UNCHANGED <<tr_batch, tr_count, passed>>
    /\ UNCHANGED <<decode_vars, batch_vars, train_vars, eval_vars, file_vars,
                   lattice_vars, iter_vars, tr_is, tr_batch_size, tr_pc>>

\* After the loop: what is left in codes is passed to update and counted,
\* and the metrics are set.
StreamEof ==
    /\ tr_pc = "read"
    /\ tr_rd = Len(tr_is)
    /\ IF tr_codes # <<>>
       THEN /\ passed' = Append(passed, [codes |-> tr_codes, texts |-> tr_texts])
            /\ tr_batch' = tr_batch + 1
            /\ tr_count' = tr_count + Len(tr_codes)
       ELSE UNCHANGED <<passed, tr_batch, tr_count>>
    /\ tr_pc' = "done"
    /\ UNCHANGED <<decode_vars, batch_vars, train_vars, eval_vars, file_vars,
                   lattice_vars, iter_vars, tr_is, tr_rd, tr_batch_size,
                   tr_codes, tr_texts>>

NextStream ==
    \/ StreamLine
    \/ StreamEof

SpecStream == InitStream /\ [][NextStream]_vars

\* ------------------------------------------------------------------ claims

\* A step of decode (advance or end_decode) has just run on dest_beams.
DecodeStepDone ==
    pc \in {"decode_advance", "decode_end", "decode_return"} /\ Len(dest_beams) >= 2

\* A step of the early-update pass has just run on beams, before its match.
EUStepDone == pc = "eu_match"

\* The lattice the last step ran on, and the beam width it ran with.
StepLattice == IF EUStepDone THEN beams ELSE dest_beams
StepWidth == IF EUStepDone THEN beam_size ELSE cur_bs

\* The texts of the words of the path root..n of lattice b, concatenated.
RECURSIVE TextUpTo(_, _)
TextUpTo(b, p) ==
    IF p = NullPtr THEN <<>>
    ELSE TextUpTo(b, At(b, p).prev) \o WordText(At(b, p).word)

PathText(b, n) == TextUpTo(b, n.prev) \o WordText(n.word)

\* C1: after every advance or end_decode step, the survivors are among the
\* emplaced candidates; when more than beam_size candidates were emplaced
\* exactly beam_size survive and no evicted candidate scores strictly
\* higher than a survivor; otherwise every candidate survives.
C1_TopkPruning ==
    (DecodeStepDone \/ EUStepDone) =>
        LET surv == Last(StepLattice)
            S == Range(surv)
            C == Range(cand)
        IN  /\ S \subseteq C
            /\ Cardinality(S) = Len(surv)
            /\ Len(cand) > StepWidth =>
                  /\ Len(surv) = StepWidth
                  /\ \A e \in C \ S : \A n \in S : ~(e.score > n.score)
            /\ Len(cand) <= StepWidth => S = C

\* C1 witness: a step that emplaced more than beam_size candidates evicted
\* one that scores strictly lower than a survivor.
C1_Witness ==
    /\ DecodeStepDone \/ EUStepDone
    /\ Len(cand) > StepWidth
    /\ \E e \in Range(cand) \ Range(Last(StepLattice)) :
          \E n \in Range(Last(StepLattice)) : n.score > e.score

C3_DecodeSound ==
    pc = "decode_return" =>
        /\ succ =>
              /\ Len(dest_beams) = Len(code) + 2
              /\ Last(dest_beams) # <<>>
              /\ \A n \in Range(Last(dest_beams)) :
                    /\ n.code_pos = Len(code)
                    /\ text # <<>> =>
                          /\ n.text_pos = Len(text)
                          /\ PathText(dest_beams, n) = text
        /\ (/\ Len(dest_beams) >= Len(code) + 1
            /\ ~ \E p \in Range(dest_beams[Len(code) + 1]) :
                    /\ p.code_pos = Len(code)
                    /\ text = <<>> \/ p.text_pos = Len(text))
           => ~succ

\* C3 witness: a text-constrained decode returned true with two different
\* paths for the text in its final step.
C3_Witness ==
    /\ pc = "decode_return"
    /\ succ
    /\ text # <<>>
    /\ Len(Last(dest_beams)) >= 2


\* No dictionary entry has a substring of c as its code.
NoMatch(c) ==
    \A i \in 1..Len(c) : \A j \in i..Len(c) :
        \A k \in 1..Len(Dict) : Dict[k].code # SubSeq(c, i, j)

\* C4 (as stated): decoding a code none of whose substrings is in the
\* dictionary returns "not ok" and leaves the lattice as init left it, with
\* only its initial step.
C4_AsStated ==
    (pc = "decode_return" /\ NoMatch(code)) =>
        /\ ~succ
        /\ dest_beams = begin_decode(init_beams)

\* C4 (amended): decoding a code none of whose substrings is in the
\* dictionary returns "not ok" and the failed advance emplaces no node, but
\* the lattice is not put back: it keeps its initial step, the steps of
\* shift nodes built by the advances before the failure, and the empty
\* step the failed advance appended.
C4_Undecodable ==
    (pc = "decode_return" /\ NoMatch(code)) =>
        /\ ~succ
        /\ cand = <<>>
        /\ Len(dest_beams) = pos
        /\ Len(dest_beams) >= 2
        /\ dest_beams[1] = begin_decode(init_beams)[1]
        /\ Last(dest_beams) = <<>>
        /\ \A s \in 2..(Len(dest_beams) - 1) :
              /\ dest_beams[s] # <<>>
              /\ \A n \in Range(dest_beams[s]) : n.word = NullWord

\* C4 witness: the decode of such a code failed after an advance that had
\* added a step of shift nodes.
C4_Witness ==
    /\ pc = "decode_return"
    /\ NoMatch(code)
    /\ ~succ
    /\ Len(dest_beams) >= 3

\* The nodes of lattice b all carry the score Model::score recomputes.
ScoresAgree(b) ==
    \A s \in DOMAIN b : \A n \in Range(b[s]) : n.score = ModelScore(b, n)

\* C5: every node created during a search, in either lattice and whether
\* kept or evicted by topk, carries the score that Model::score computes by
\* walking prev* from the node to the root.
C5_ScoreEquivalence ==
    /\ ScoresAgree(dest_beams)
    /\ ScoresAgree(beams)
    /\ (DecodeStepDone \/ EUStepDone) =>
          \A n \in Range(cand) : n.score = ModelScore(StepLattice, n)

\* C5 witness: a node has a non-zero score that comes from the features of
\* its ancestors only.
C5_Witness ==
    \E s \in DOMAIN dest_beams : \E n \in Range(dest_beams[s]) :
        /\ n.score # 0
        /\ Dot(n.local_features) = 0
        /\ Dot(n.global_features) = 0

\* C6: after a completed decode every node of a step s > 0 has a prev that
\* addresses a node of step s - 1 of the same lattice, only the node of
\* step 0 has no prev, code_pos and text_pos do not decrease from a node's
\* prev to the node, and no code_pos exceeds |code|.
C6_LatticeIntegrity ==
    pc = "decode_return" =>
        \A s \in DOMAIN dest_beams : \A n \in Range(dest_beams[s]) :
            /\ n.code_pos <= Len(code)
            /\ s = 1 => n.prev = NullPtr
            /\ s > 1 =>
                  /\ n.prev.lat = "dest"
                  /\ n.prev.step = s - 2
                  /\ n.prev.idx \in 0..(Len(dest_beams[s - 1]) - 1)
                  /\ At(dest_beams, n.prev).code_pos <= n.code_pos
                  /\ At(dest_beams, n.prev).text_pos <= n.text_pos

\* C6 witness: a decode of a two-character code completed with a final node
\* whose path goes through a reduction that moved both cursors.
C6_Witness ==
    /\ pc = "decode_return"
    /\ succ
    /\ Len(code) >= 2
    /\ \E n \in Range(Last(dest_beams)) :
          /\ At(dest_beams, n.prev).code_pos
                > At(dest_beams, At(dest_beams, n.prev).prev).code_pos
          /\ At(dest_beams, n.prev).text_pos
                > At(dest_beams, At(dest_beams, n.prev).prev).text_pos

\* The prev_word rule for the nodes of lattice b, whose name is lat.
PrevWordRule(lat, b) ==
    \A s \in DOMAIN b : \A n \in Range(b[s]) :
        s > 1 =>
            /\ n.prev_word = IF At(b, n.prev).word # NullWord
                             THEN n.prev
                             ELSE At(b, n.prev).prev_word
            /\ n.prev_word.lat \in {lat, "null"}

\* C7: for every non-root node n of a lattice built by decode or by the
\* early-update pass, a node force-emplaced by match included, prev_word
\* is prev when prev carries a word and prev.prev_word otherwise, so
\* prev_word addresses a node of n's own lattice.
C7_PrevWord ==
    /\ PrevWordRule("dest", dest_beams)
    /\ PrevWordRule("beams", beams)

\* The operation that early_update runs k-th on its lattice.
SchedOp(k) ==
    IF k % 2 = 0 THEN "match"
    ELSE IF (k + 1) \div 2 <= Len(code) THEN "advance"
    ELSE "end_decode"

\* C8: the early-update pass runs advance(1), match(1), ..., advance(|code|),
\* match(|code|), end_decode, match(|code| + 1) in this order and stops
\* after the first match that finds no reference, so at most one node is
\* force-emplaced and it is the last node of the last step; when every
\* match finds a reference all |code| + 1 steps run.
C8_EarlyUpdateOrder ==
    /\ Len(trace) <= 2 * (Len(code) + 1)
    /\ \A k \in DOMAIN trace :
          /\ trace[k].op = SchedOp(k)
          /\ trace[k].pos = (k + 1) \div 2
          /\ (trace[k].op = "match" /\ ~trace[k].found) => k = Len(trace)
    /\ Cardinality(forced) <= 1
    /\ \A p \in forced :
          /\ p.step = Len(beams) - 1
          /\ p.idx = Len(Last(beams)) - 1
    /\ (forced # {}) <=>
          (\E k \in DOMAIN trace : trace[k].op = "match" /\ ~trace[k].found)
    /\ (pc \in {"eu_label", "done"} /\ trace # <<>>) =>
          /\ Last(trace).op = "match"
          /\ Last(trace).found => Len(trace) = 2 * (Len(code) + 1)

\* C8 witness: the pass has stopped before the last step, after a match
\* that found no reference and force-emplaced one.
C8_Witness ==
    /\ pc = "done"
    /\ forced # {}
    /\ Len(trace) < 2 * (Len(code) + 1)

\* The indices that early_update's label is chosen among.
ValidIndeces ==
    {indeces[i] : i \in {j \in DOMAIN indeces : indeces[j] < Len(Last(beams))}}

\* C9: the label early_update returns is the smallest index a reference
\* holds in the final step.
C9_LabelSmallest ==
    (pc = "done" /\ ret > 0) => label = Min(ValidIndeces)

\* C10: the text-constrained decode runs at most twice for a sample; the
\* first run has width beam_size; the second runs only after the first
\* failed and has width 2 * beam_size; after a second failure the sample
\* is reported undecodable (early_update returns 0) and nothing else runs;
\* a sample is reported undecodable only after both runs failed.
C10_Retry ==
    /\ attempt \in {1, 2}
    /\ Len(tries) <= attempt
    /\ attempt = 1 => cur_bs = beam_size
    /\ attempt = 2 => cur_bs = 2 * beam_size /\ Len(tries) >= 1
    /\ \A k \in DOMAIN tries :
          /\ tries[k].bs = IF k = 1 THEN beam_size ELSE 2 * beam_size
          /\ k < Len(tries) => ~tries[k].ok
    /\ (Len(tries) = 2 /\ ~tries[2].ok) => pc = "done" /\ ret = 0
    /\ (pc = "done" /\ text # <<>> /\ ret = 0) =>
          Len(tries) = 2 /\ ~tries[1].ok /\ ~tries[2].ok

\* C10 witness: the first decode failed and the second, twice as wide,
\* found a reference path.
C10_Witness ==
    /\ Len(tries) = 2
    /\ ~tries[1].ok
    /\ tries[2].ok
    /\ tries[2].bs = 2 * beam_size


\* The name of the lattice the last step ran on, its 0-based step number,
\* the position its nodes were built for, and the step before it.
StepName == IF EUStepDone THEN "beams" ELSE "dest"
StepNo == Len(StepLattice) - 1
StepPos == IF StepNo <= Len(code) THEN StepNo ELSE Len(code)
PrevStep == StepLattice[Len(StepLattice) - 1]

\* C15: when candidates of one step have equal scores and not all of them
\* fit into the beam, the earlier-emplaced ones survive: a survivor's
\* equally scored predecessors in emplacement order survive too (with
\* beam_size = 1 and two equally scored reductions, the first one).
C15_TieBreak ==
    (DecodeStepDone \/ EUStepDone) =>
        \A i, j \in DOMAIN cand :
            (/\ i < j
             /\ cand[i].score = cand[j].score
             /\ cand[j] \in Range(Last(StepLattice)))
            => cand[i] \in Range(Last(StepLattice))

\* The shift successor advance emplaced for the predecessor at index j.
ShiftOf(j) ==
    {n \in Range(cand) :
        /\ n.word = NullWord
        /\ n.prev = Ptr(StepName, StepNo - 1, j)}

RECURSIVE Segs(_)
Segs(c) ==
    IF c = <<>> THEN {<<>>}
    ELSE UNION {{<<w>> \o r :
                    r \in Segs(SubSeq(c, Len(Dict[w].code) + 1, Len(c)))}
                : w \in {v \in 1..Len(Dict) :
                            /\ Len(Dict[v].code) <= Len(c)
                            /\ SubSeq(c, 1, Len(Dict[v].code)) = Dict[v].code}}

\* The dictionary entries reduced along the path root..p of lattice b.
RECURSIVE WordsUpTo(_, _)
WordsUpTo(b, p) ==
    IF p = NullPtr THEN <<>>
    ELSE WordsUpTo(b, At(b, p).prev)
         \o (IF At(b, p).word \in 1..Len(Dict) THEN <<At(b, p).word>> ELSE <<>>)

EarlyAgrees ==
    (pc = "done" /\ text # <<>>) =>
        \E r \in early_update(code, text, beam_size) :
            /\ r.pos = ret
            /\ ret > 0 => r.label = label /\ r.beams = beams


\* The text a sequence of dictionary entries spells.
RECURSIVE TextOfWords(_)
TextOfWords(ws) ==
    IF ws = <<>> THEN <<>> ELSE WordText(Head(ws)) \o TextOfWords(Tail(ws))

\* The text of sample sm cannot be produced from its code.
Unproducible(sm) == \A ws \in Segs(sm.code) : TextOfWords(ws) # sm.text

\* The samples whose additions the log of Model::update holds, in order.
UpdatedSamples == [k \in DOMAIN updates |-> updates[k].sample]

\* C11: a sample whose text cannot be produced from its code is reported
\* undecodable (early_update returns 0); for a sample reported undecodable
\* Model::update is not called, so it leaves the weights as they were, and
\* success is not incremented; every other sample of the batch is still
\* updated from and counted.
C11_UndecodableSample ==
    /\ \A i \in DOMAIN batch :
          /\ (wpc[i] = "done" /\ Unproducible(batch[i])) => positions[i] = 0
          /\ positions[i] = 0 => \A k \in DOMAIN updates : updates[k].sample # i
    /\ phase \in {"count", "done"} =>
          \A i \in DOMAIN batch :
              positions[i] > 0 =>
                  Cardinality({k \in DOMAIN updates : updates[k].sample = i}) = 1
    /\ phase = "done" =>
          /\ success = Cardinality({i \in DOMAIN batch : positions[i] > 0})
          /\ Len(loss) = success

\* C11 witness: a batch whose first sample is undecodable and whose second
\* sample was decoded, updated from and counted.
C11_Witness ==
    /\ phase = "done"
    /\ Len(batch) = 2
    /\ Unproducible(batch[1])
    /\ positions[1] = 0
    /\ positions[2] > 0
    /\ UpdatedSamples = <<2>>
    /\ success = 1

\* C12: no Model::update is made while an early_update of the batch is
\* still to run, so every sample is scored with the weights the batch
\* started with; the updates are then made one sample after the other in
\* input order, each from that sample's last step and deltas, so the
\* weights after the batch depend on the per-sample results only, not on
\* the order in which the parallel iterations ran.
C12_BatchOrder ==
    /\ (\E i \in DOMAIN wpc : wpc[i] = "todo") =>
          updates = <<>> /\ phase = "parallel"
    /\ \A k \in DOMAIN updates :
          LET i == updates[k].sample
          IN  /\ i \in DOMAIN batch
              /\ positions[i] > 0
              /\ updates[k].terms = UpdateTerms(batch_beams[i], batch_deltas[i], 1)
              /\ \A m \in DOMAIN updates : m < k => updates[m].sample < i
    /\ phase \in {"count", "done"} =>
          {updates[k].sample : k \in DOMAIN updates}
              = {i \in DOMAIN batch : positions[i] > 0}

\* C12 witness: the batch is finished and the model was updated from two
\* samples with different gradients.
C12_Witness ==
    /\ phase = "done"
    /\ UpdatedSamples = <<1, 2>>
    /\ updates[1].terms # updates[2].terms
    /\ updates[1].terms # <<>>


\* The number of times x occurs in sequence q.
Occurs(q, x) == Cardinality({i \in DOMAIN q : q[i] = x})

\* C13: when the batched evaluate has read the whole stream, its counters
\* equal those of the sequential evaluate over the same predictions: count
\* is the number of samples, and no increment of success, in-beam,
\* precision or loss is lost, whatever the interleaving of the workers.
C13_CountersSequential ==
    phase = "done" =>
        LET m == evaluate(preds, Len(stream), beam_size)
        IN  /\ count = Len(stream)
            /\ ev_succ = m.succ
            /\ ev_inbeam = m.inbeam
            /\ ev_prec = m.prec
            /\ Len(ev_loss) = Len(m.loss)
            /\ \A x \in Range(m.loss) : Occurs(ev_loss, x) = Occurs(m.loss, x)

\* C14: whenever the unconstrained decode of a sample's code succeeded and
\* the sample's text is not among the texts of the final-step paths,
\* predict returned beam_size with a prob computed from the
\* text-constrained decode.
C14_OutOfBeam ==
    \A k \in DOMAIN preds :
        (/\ preds[k].decoded
         /\ \A j \in DOMAIN preds[k].texts : preds[k].texts[j] # stream[k].text)
        => /\ preds[k].index = beam_size
           /\ preds[k].ref
           /\ preds[k].prob.num > 0


\* The lines of the file that carry key k.
LinesOf(k) == {i \in DOMAIN file : file[i].key = k}

\* The keys the lines of the file carry.
KeysOfFile == {file[i].key : i \in DOMAIN file} \ {""}

\* C19 (as stated): after load the model holds exactly the keys of the
\* file, and for a key on several lines the weight of the last such line.
C19_AsStated ==
    io_pc = "loaded" =>
        /\ DOMAIN weights = KeysOfFile
        /\ \A k \in KeysOfFile :
              weights[k] = ParseDouble(file[CHOOSE i \in LinesOf(k) :
                                   \A j \in LinesOf(k) : j <= i].num)

\* C19 (amended): load first discards every weight held, then repopulates
\* from the input, so that the model holds exactly the keys of the file;
\* for a key on several lines the weight held is the one of the first
\* such line.
C19_LoadFirstWins ==
    io_pc = "loaded" =>
        /\ DOMAIN weights = KeysOfFile
        /\ \A k \in KeysOfFile :
              weights[k] = ParseDouble(file[CHOOSE i \in LinesOf(k) :
                                   \A j \in LinesOf(k) : i <= j].num)

\* C19 witness: a model that held a key the file does not mention has
\* loaded a file with two lines for one key and different weights.
C19_Witness ==
    /\ io_pc = "loaded"
    /\ \E k \in DOMAIN before : k \notin KeysOfFile
    /\ \E i, j \in DOMAIN file :
          /\ i < j
          /\ file[i].key # ""
          /\ file[i].key = file[j].key
          /\ file[i].num # file[j].num

\* C20: loading what save wrote yields the key set and the per-key
\* weights of the map that was saved.
C20_RoundTrip ==
    io_pc = "reloaded" => weights = before


\* The sum of a sequence of fractions.
RECURSIVE FracSum(_)
FracSum(q) ==
    IF q = <<>> THEN Frac(0, 1)
    ELSE LET r == FracSum(Tail(q))
         IN  Frac(Head(q).num * r.den + r.num * Head(q).den, Head(q).den * r.den)

\* Fraction f is n / z.
FracIs(f, n, z) == f.den > 0 /\ f.num * z = n * f.den

\* C21: after early_update of a decodable sample, deltas has one entry per
\* node of the final step, in node order; with p_j the softmax of the
\* scores of that step, every entry is -p_j except the entry at index
\* label, which is 1 - p_label; prob is p_label; the deltas sum to zero and
\* the label's entry is the only non-negative one.
C21_GradientShape ==
    \A i \in DOMAIN batch :
        (wpc[i] = "done" /\ positions[i] > 0) =>
            LET step == Last(batch_beams[i])
                d    == batch_deltas[i]
                lbl  == b_indeces[i]
                lo   == MinScore(step)
                w(j) == Pow2(step[j].score - lo)
                z    == SumSeq([j \in DOMAIN step |-> w(j)])
            IN  /\ Len(d) = Len(step)
                /\ lbl < Len(step)
                /\ \A j \in DOMAIN step :
                      FracIs(d[j], (IF j = lbl + 1 THEN z ELSE 0) - w(j), z)
                /\ FracIs(probs[i], w(lbl + 1), z)
                /\ FracSum(d).num = 0
                /\ {j \in DOMAIN d : d[j].num >= 0} = {lbl + 1}

\* C21 witness: a decoded sample whose final step holds two nodes of
\* different scores, the label being the second.
C21_Witness ==
    \E i \in DOMAIN batch :
        /\ wpc[i] = "done"
        /\ positions[i] > 0
        /\ Len(Last(batch_beams[i])) = 2
        /\ Last(batch_beams[i])[1].score # Last(batch_beams[i])[2].score
        /\ b_indeces[i] = 1
        /\ probs[i].num < probs[i].den


\* C22: init(code_len, beam_size) reserves (code_len + 1) * beam_size + 2
\* node slots, and through the root step, the code_len advance steps and
\* the end step every slot alloc hands out lies inside the reserved arena:
\* the slots in use never exceed the capacity.
C22_ArenaCapacity ==
    l_pc # "idle" =>
        /\ capacity = (length + 1) * beam_size + 2
        /\ \A p \in handed : p < capacity
        /\ Last(limits) <= capacity

\* The second half of C22 alone: no slot outside the arena is handed out.
C22_InsideArena ==
    l_pc # "idle" => \A p \in handed : p < capacity

\* Through the root step and the first length steps alone every slot
\* handed out lies inside the arena.
C22_InsideArenaUpToLength ==
    (l_pc # "idle" /\ Len(limits) - 2 <= length) =>
        /\ capacity = length * beam_size + 2
        /\ \A p \in handed : p < capacity


\* The smaller of two numbers.
Least(a, b) == IF a < b THEN a ELSE b

\* The step protocol of C27, for the current step.
StepProtocol ==
    /\ l_pc = "topk" => StepStart + Len(heap) = Last(limits)
    /\ l_pc \in {"emplace", "topk"} => Last(limits) - StepStart <= beam_size + 1
    /\ (l_pc = "ready" /\ Len(limits) > 2) =>
          LET n     == Len(emplaced)
              slots == StepStart..(Last(limits) - 1)
          IN  /\ Cardinality(slots) = Least(n, beam_size)
              /\ {pool[o] : o \in slots} = kept
              /\ Cardinality(kept) = Least(n, beam_size)
              /\ \A x \in Range(emplaced) \ kept :
                    \A y \in kept : x.score <= y.score
    /\ (l_pc # "idle" /\ Len(limits) > 2) =>
          \A o \in 0..(StepStart - 1) : pool[o] = snap[o]

\* C27: for any sequence begin_step, n >= 1 times (emplace, topk),
\* end_step: the assertion step start + heap.size() == limits.back() holds
\* after every emplace, at most beam_size + 1 slots of the current step are
\* in use at any time, after end_step the step occupies min(n, beam_size)
\* contiguous slots that hold exactly the candidates topk kept, and the
\* nodes of earlier steps are unchanged.
C27_StepProtocol == StepProtocol

\* The same for the steps whose slots all lie inside the arena.
C27_InsideArena == (\A p \in handed : p < capacity) => StepProtocol

\* A step inside the arena in which the node in the temporary slot was kept
\* and moved into the slot of the evicted one.
C27_InsideArenaWitness ==
    /\ l_pc = "ready"
    /\ \A p \in handed : p < capacity
    /\ Len(emplaced) > beam_size
    /\ Last(emplaced) \in kept
    /\ \E o \in StepStart..(Last(limits) - 1) :
          pool[o] \in kept /\ snap[o] = Raw /\ pool[o] = emplaced[beam_size + 1]


\* The total length of the texts, and of the codes, of the words of the
\* path root..node, for the node p addresses in lattice b.
RECURSIVE TextLenUpTo(_, _)
TextLenUpTo(b, p) ==
    IF p = NullPtr THEN 0
    ELSE TextLenUpTo(b, At(b, p).prev) + Len(WordText(At(b, p).word))

RECURSIVE CodeLenUpTo(_, _)
CodeLenUpTo(b, p) ==
    IF p = NullPtr THEN 0
    ELSE CodeLenUpTo(b, At(b, p).prev) + Len(WordCode(At(b, p).word))

CursorsOf(b) ==
    \A s \in DOMAIN b : \A n \in Range(b[s]) :
        /\ n.text_pos = TextLenUpTo(b, n.prev) + Len(WordText(n.word))
        /\ n.code_pos = CodeLenUpTo(b, n.prev) + Len(WordCode(n.word))
        /\ (n.word = NullWord /\ n.prev # NullPtr) =>
              /\ n.code_pos = At(b, n.prev).code_pos
              /\ n.text_pos = At(b, n.prev).text_pos

\* C23: for every node of a lattice, text_pos is the total length of the
\* texts of the words on the path root..node and code_pos the total length
\* of their codes, the BOS/EOS sentinel counting 0; a shift node has the
\* code_pos and text_pos of its predecessor.
C23_CursorAccounting == CursorsOf(dest_beams) /\ CursorsOf(beams)

\* C23 witness: the early-update lattice holds a force-emplaced node that
\* carries a word of two characters of code and one of text, next to a
\* path of two words.
C23_Witness ==
    /\ \E p \in forced :
          /\ p.step + 1 \in DOMAIN beams
          /\ p.idx + 1 \in DOMAIN beams[p.step + 1]
          /\ At(beams, p).code_pos = 2
          /\ At(beams, p).text_pos = 1
    /\ \E s \in DOMAIN beams : \E n \in Range(beams[s]) :
          /\ n.word \in 1..Len(Dict)
          /\ n.prev # NullPtr
          /\ At(beams, n.prev).word \in 1..Len(Dict)


\* The words of the path root..node for the node p addresses in lattice b,
\* NullWord for a shift.
RECURSIVE WordsUpToNode(_, _)
WordsUpToNode(b, p) ==
    IF p = NullPtr THEN <<>>
    ELSE Append(WordsUpToNode(b, At(b, p).prev), At(b, p).word)

\* The early-update pass is past a match that returned found.
Matched ==
    /\ pc \in {"eu_advance", "eu_end", "eu_label"}
    /\ succ
    /\ Len(beams) >= 2

\* After a match that returned found every reference holds an index into
\* the step matched whose node carries the reference's words, or SIZE_MAX.
Tracked ==
    Matched =>
        \A i \in DOMAIN indeces :
            IF indeces[i] < Len(Last(beams))
            THEN WordsUpToNode(beams, Ptr("beams", Len(beams) - 1, indeces[i]))
                    = [k \in 1..Len(beams) |-> paths[i][k].word]
            ELSE indeces[i] = SIZE_MAX

\* A reference that holds SIZE_MAX holds it after the next match too.
StaysOut ==
    pc = "eu_match" =>
        \A i \in DOMAIN indeces :
            indeces[i] = SIZE_MAX =>
                (i \in DOMAIN indeces' /\ indeces'[i] = SIZE_MAX)

\* C24: after every match that returns found, for each reference i whose
\* index is inside the step matched, the node at that index carries along
\* prev the same words (none for a shift) as the reference path up to that
\* step; a reference not matched at some step holds the out-of-range
\* sentinel and is never matched at a later step.
C24_ReferenceTracking == []Tracked /\ [][StaysOut]_vars

\* C24 witness: the second or a later match has returned found with one
\* reference tracked and another one out.
C24_Witness ==
    /\ Matched
    /\ Len(beams) >= 3
    /\ \E i \in DOMAIN indeces : indeces[i] = SIZE_MAX
    /\ \E i \in DOMAIN indeces : indeces[i] < Len(Last(beams))


\* A step of match that finds no reference, with the node it must append:
\* some reference holds an index into step pos - 1, the first of them, i,
\* is chosen, one node is appended to step pos, indeces[i] is its slot and
\* every other reference holds SIZE_MAX.
ForceEmplaceStep(Node(_, _)) ==
    (pc = "eu_match" /\ pc' # "abort" /\ ~succ') =>
        LET live == {i \in DOMAIN indeces : indeces[i] < Len(beams[pos])}
        IN  /\ live # {}
            /\ LET i  == Min(live)
                   pp == Ptr("beams", pos - 1, indeces[i])
               IN  /\ Len(beams') = Len(beams)
                   /\ \A s \in DOMAIN beams : s # pos + 1 => beams'[s] = beams[s]
                   /\ beams'[pos + 1] = Append(beams[pos + 1], Node(paths[i][pos + 1], pp))
                   /\ indeces'[i] = Len(beams'[pos + 1]) - 1
                   /\ \A k \in DOMAIN indeces : k # i => indeces'[k] = SIZE_MAX

\* The node of C25 as stated: paths[i][pos] with prev set.
PrevSet(n, pp) == [n EXCEPT !.prev = pp]

\* The node of C25 as amended: prev set, and prev_word too when the new
\* predecessor carries a word.
PrevAndWordSet(n, pp) ==
    [n EXCEPT !.prev = pp,
              !.prev_word = IF At(beams, pp).word # NullWord THEN pp ELSE @]

\* C25 (as stated): whenever match finds no reference in step pos, some
\* reference has an in-range index into step pos - 1 (no assertion of match
\* or early_update fails); the first such reference i is chosen, exactly
\* one node is appended to step pos, equal to paths[i][pos] except that its
\* prev is step[pos - 1][prev_indeces[i]]; indeces[i] becomes its slot and
\* every other reference holds the sentinel.
C25_AsStated == [](pc # "abort") /\ [][ForceEmplaceStep(PrevSet)]_vars

\* C25 (amended): as stated, but the appended node equals paths[i][pos]
\* except that its prev is step[pos - 1][prev_indeces[i]] and that, when
\* that predecessor carries a word, its prev_word is that predecessor too.
C25_ForceEmplace == [](pc # "abort") /\ [][ForceEmplaceStep(PrevAndWordSet)]_vars

\* C25 witness: match has appended a node whose new predecessor carries a
\* word, and the reference it stands for is the only one with a valid index.
C25_Witness ==
    /\ pc = "eu_label"
    /\ ~succ
    /\ \E p \in forced :
          /\ At(beams, At(beams, p).prev).word # NullWord
          /\ At(beams, p).prev_word = At(beams, p).prev
          /\ \E i \in DOMAIN indeces :
                /\ indeces[i] = p.idx
                /\ \A k \in DOMAIN indeces : k # i => indeces[k] = SIZE_MAX


\* early_update has returned a label.
Labelled == pc = "done" /\ beams # <<>>

\* C26 (as stated): every step of the lattice of the early-update pass,
\* the step match force-emplaces into included, holds at most beam_size
\* nodes, so the final step has at most beam_size nodes and the label
\* returned is smaller than beam_size.
C26_AsStated ==
    /\ \A s \in DOMAIN beams : Len(beams[s]) <= beam_size
    /\ Labelled => label < beam_size

\* C26 (amended): every step of the lattice of the early-update pass holds
\* at most beam_size nodes, except that the step match force-emplaces into
\* holds one node more, up to beam_size + 1; the final step has at most
\* beam_size + 1 nodes, the label returned is an index into it and is
\* smaller than beam_size unless it is the force-emplaced node of a full
\* step, when it is beam_size.
C26_BeamCap ==
    /\ \A s \in DOMAIN beams :
          /\ Len(beams[s]) <= beam_size + 1
          /\ Len(beams[s]) = beam_size + 1 =>
                Ptr("beams", s - 1, beam_size) \in forced
    /\ Labelled =>
          /\ label < Len(Last(beams))
          /\ label <= beam_size
          /\ label = beam_size =>
                Ptr("beams", Len(beams) - 1, beam_size) \in forced

\* C26 witness: the early update returned the force-emplaced node of a
\* full step as the label.
C26_Witness ==
    /\ Labelled
    /\ Len(Last(beams)) = beam_size + 1
    /\ label = beam_size
    /\ Ptr("beams", Len(beams) - 1, beam_size) \in forced


\* The features Features(rear) is to yield: the global features of the
\* rear, then the local features of the rear, of its prev, ... down to
\* the root.
RECURSIVE LocalsDown(_, _)
LocalsDown(path, p) ==
    IF p = 0 THEN <<>>
    ELSE path[p].local_features \o LocalsDown(path, p - 1)

Expected(path) == path[Len(path)].global_features \o LocalsDown(path, Len(path))

\* What the loop has yielded so far is a prefix of what it is to yield,
\* and at its end all of it, with the multiset of the terms of Model::score.
YieldsInOrder ==
    it_pc # "idle" =>
        /\ Len(yielded) <= Len(Expected(it_path))
        /\ yielded = SubSeq(Expected(it_path), 1, Len(yielded))
        /\ it_pc = "end" =>
              /\ yielded = Expected(it_path)
              /\ \A f \in Range(yielded) \cup Range(ScoreTerms(it_path, Len(it_path))) :
                    Occurs(yielded, f) = Occurs(ScoreTerms(it_path, Len(it_path)), f)

\* C28: iterating Features(rear) from begin() to end() terminates and
\* yields, in this order, every global feature of rear, then every local
\* feature of rear, rear.prev, ... down to the root, each occurrence once,
\* skipping empty lists and yielding no global feature of another node;
\* the yielded multiset is that of the features Model::score(rear) sums.
C28_FeatureIteration == []YieldsInOrder /\ <>(it_pc = "end")

\* C28 witness: the loop has ended on a path of two nodes whose rear has no
\* global feature and a repeated local feature, while the root has global
\* features.
C28_Witness ==
    /\ it_pc = "end"
    /\ Len(it_path) = 2
    /\ it_path[2].global_features = <<>>
    /\ it_path[2].local_features = <<FeatureA, FeatureA>>
    /\ it_path[1].global_features # <<>>
    /\ it_path[1].local_features # <<>>
    /\ Len(yielded) >= 3


\* The samples of the first n lines of the stream, in order: the lines
\* with at least two fields, as <<code, text>>.
RECURSIVE SamplesOf(_, _)
SamplesOf(q, n) ==
    IF n = 0 THEN <<>>
    ELSE SamplesOf(q, n - 1)
            \o (IF Len(q[n]) >= 2 THEN <<<<q[n][1], q[n][2]>>>> ELSE <<>>)

\* The samples of the batches passed so far, in order.
RECURSIVE PassedUpTo(_)
PassedUpTo(k) ==
    IF k = 0 THEN <<>>
    ELSE PassedUpTo(k - 1)
            \o [j \in DOMAIN passed[k].codes |->
                   <<passed[k].codes[j], passed[k].texts[j]>>]

\* What train has done with the lines read so far: the samples passed on
\* and, while reading, the ones still collected are the samples of those
\* lines in order; every batch but the one passed after the loop has n
\* samples and that one has 1..n at most; at the end the count is the
\* number of lines not skipped.
Batched(n) ==
    /\ tr_pc = "read" =>
          PassedUpTo(Len(passed))
             \o [j \in DOMAIN tr_codes |-> <<tr_codes[j], tr_texts[j]>>]
             = SamplesOf(tr_is, tr_rd)
    /\ \A k \in DOMAIN passed :
           \/ Len(passed[k].codes) = n
           \/ /\ k = Len(passed)
              /\ tr_pc = "done"
              /\ Len(passed[k].codes) \in 1..n
    /\ tr_pc = "done" =>
          /\ PassedUpTo(Len(passed)) = SamplesOf(tr_is, Len(tr_is))
          /\ tr_batch = Len(passed)
          /\ tr_count = Len(SamplesOf(tr_is, Len(tr_is)))

\* C29 as stated: in train(stream, batch_size) lines that are empty or
\* lack a code or a text are skipped; every other sample is passed to a
\* batch update exactly once, in stream order, in batches of exactly
\* batch_size samples except possibly the last; the count reported is the
\* number of lines not skipped.
C29_AsStated == tr_pc # "idle" => Batched(tr_batch_size)

\* C29 amended: as stated, with batches of exactly batch_size samples when
\* batch_size is at least 1 and of exactly one sample when batch_size is 0
\* (codes.size() >= 0 holds after every sample).
C29_BatchFormation ==
    tr_pc # "idle" => Batched(IF tr_batch_size = 0 THEN 1 ELSE tr_batch_size)

\* C29 witness: a stream with a blank line and three samples was trained
\* with batch_size 2: a full batch, then the last batch of one sample.
C29_Witness ==
    /\ tr_pc = "done"
    /\ tr_batch_size = 2
    /\ Len(passed) = 2
    /\ Len(passed[1].codes) = 2
    /\ Len(passed[2].codes) = 1
    /\ \E k \in DOMAIN tr_is : ~IsSample(tr_is[k])
    /\ tr_count = 3


\* C30: predict returned a rank r with 0 <= r < beam_size only for a sample
\* whose text is the text of the r-th ranked path; for a sample whose text
\* is neither among the ranked texts nor produced by the text-constrained
\* decode it returned a negative rank, and evaluate's counting of that
\* prediction adds nothing to success, in-beam or precision.
C30_FailureReported ==
    \A k \in DOMAIN preds :
        LET p == preds[k]
            t == stream[k].text
            m == evaluate(<<p>>, 1, beam_size)
        IN  /\ (p.index >= 0 /\ p.index < beam_size)
                  => /\ p.index < Len(p.texts)
                     /\ p.texts[p.index + 1] = t
            /\ ((\A j \in DOMAIN p.texts : p.texts[j] # t) /\ ~p.ref)
                  => /\ p.index < 0
                     /\ m.succ = 0
                     /\ m.inbeam = 0
                     /\ m.prec = 0

====
